---- MODULE Spec2Model ----
(***************************************************************************)
(* FileFlicker: the incremental filesystem scanner (FileScanner) and the   *)
(* catalog store it writes to, as a state machine.                         *)
(*                                                                         *)
(* The process is a single-threaded event loop: code between two awaits    *)
(* runs without interruption.  Every action below is therefore "an awaited *)
(* I/O call returns (or throws) and the continuation runs up to the next   *)
(* await".  Calls of startScan (from the manual-scan route and from the    *)
(* cron callback) and of the cleanup methods interleave at these points.   *)
(*                                                                         *)
(* A file name is a sequence of one-character strings, a path the sequence *)
(* of its segment names (path.join appends a segment).                     *)
(***************************************************************************)
EXTENDS Integers, Sequences, FiniteSets, TLC

\* ------------------------------------------------------------------ bounds
\* How many startScan / scheduledScan calls are issued in one behaviour.
MaxScans == 2
\* The same, with the manual-scan route as the only caller.
SeqScans == 2
\* How many changes the outside world makes to the disk in one behaviour.
MaxChanges == 1
\* How many cleanup calls are issued in one behaviour.
MaxCleanups == 1
\* How many I/O calls (filesystem or database) throw in one behaviour.
MaxFaults == 1
SeqFaults == 1
\* File sizes and modification times on disk range over 1..MaxSize, 1..MaxMtime.
MaxSize == 2
MaxMtime == 2
\* How many ids a cleanup request carries at most.
MaxIds == 2
\* How many POST /api/video-progress requests one behaviour has, how many
\* files they are about, the playback positions they carry (1..MaxTime) and
\* how many of their database calls throw.
MaxSaves == 3
MaxWatched == 2
MaxTime == 2
SaveFaults == 1
TypeScans == 1
TypeFaults == 1
ListScans == 2
ListChanges == 2
ListFaults == 1
\* On the disk with two subdirectories: how many scans and thrown I/O calls
\* one behaviour has.
SibScans == 2
SibFaults == 2
\* With repeated cleanup calls: how many scans, cleanup calls and thrown I/O
\* calls one behaviour has.
RepScans == 1
RepCleanups == 2
RepFaults == 1

\* ------------------------------------------------------------------ names
NULL == 0

n_d == <<"d">>
n_a == <<"a">>
n_b == <<"b">>
n_m_mp4 == <<"m", ".", "m", "p", "4">>
n_m_en_srt == <<"m", ".", "e", "n", ".", "s", "r", "t">>
n_N_TXT == <<"N", ".", "T", "X", "T">>
n_o_srt == <<"o", ".", "s", "r", "t">>

\* SCAN_DIRECTORY: the root every scan is started on.
RootPath == <<n_d>>

\* The paths the disk can hold, in directory-listing order.
DirUniverse == << <<n_d>>, <<n_d, n_a>> >>
FileUniverse == << <<n_d, n_m_mp4>>, <<n_d, n_m_en_srt>>, <<n_d, n_a, n_N_TXT>> >>
\* A second subdirectory of the root and a subtitle file of another base
\* name, which only SiblingDisk holds.
SiblingPath == <<n_d, n_b>>
OtherSubtitle == <<n_d, n_o_srt>>
\* A video whose name is in upper case, which only MixedCaseDisk holds.
UpperVideo == <<n_d, <<"M", ".", "M", "P", "4">>>>
AllPaths ==
    DirUniverse \o <<SiblingPath>> \o FileUniverse \o <<OtherSubtitle, UpperVideo>>

Range(s) == {s[i] : i \in 1..Len(s)}

\* path.join(dirPath, entry.name), path.basename, path.dirname
join(dirPath, name) == Append(dirPath, name)
basename(p) == p[Len(p)]
dirname(p) == SubSeq(p, 1, Len(p) - 1)

\* ------------------------------------------------------------------ strings
UpperLetters ==
    <<"A", "B", "C", "D", "E", "F", "G", "H", "I", "J", "K", "L", "M",
      "N", "O", "P", "Q", "R", "S", "T", "U", "V", "W", "X", "Y", "Z">>
LowerLetters ==
    <<"a", "b", "c", "d", "e", "f", "g", "h", "i", "j", "k", "l", "m",
      "n", "o", "p", "q", "r", "s", "t", "u", "v", "w", "x", "y", "z">>
LowerOf ==
    [c \in Range(UpperLetters) |->
        LowerLetters[CHOOSE i \in 1..Len(UpperLetters) : UpperLetters[i] = c]]

\* String.prototype.toUpperCase
toUpperCase(s) ==
    [i \in 1..Len(s) |->
        IF s[i] \in Range(LowerLetters)
        THEN UpperLetters[CHOOSE k \in 1..Len(LowerLetters) : LowerLetters[k] = s[i]]
        ELSE s[i]]

\* String.prototype.toLowerCase
toLowerCase(s) == [i \in 1..Len(s) |-> IF s[i] \in DOMAIN LowerOf THEN LowerOf[s[i]] ELSE s[i]]

\* index of the last "." of a name, 0 when there is none
LastDot(s) ==
    LET dots == {i \in 1..Len(s) : s[i] = "."}
    IN  IF dots = {} THEN 0 ELSE CHOOSE i \in dots : \A j \in dots : j <= i

\* path.extname: from the last "." on; empty when there is no "." or the
\* only "." is the first character
extname(s) == IF LastDot(s) <= 1 THEN <<>> ELSE SubSeq(s, LastDot(s), Len(s))

\* path.parse(p).name: the base name without its extension
parseName(p) ==
    LET b == basename(p)
    IN  SubSeq(b, 1, Len(b) - Len(extname(b)))

\* The whole string compared instead of its beginning.
equalTo(s, prefix) == s = prefix

\* String.prototype.startsWith
startsWith(s, prefix) == Len(prefix) <= Len(s) /\ SubSeq(s, 1, Len(prefix)) = prefix

videoExts ==
    { <<".", "m", "p", "4">>, <<".", "a", "v", "i">>, <<".", "m", "k", "v">>,
      <<".", "m", "o", "v">>, <<".", "w", "m", "v">>, <<".", "f", "l", "v">>,
      <<".", "w", "e", "b", "m">>, <<".", "m", "4", "v">> }
imageExts ==
    { <<".", "j", "p", "g">>, <<".", "j", "p", "e", "g">>, <<".", "p", "n", "g">>,
      <<".", "g", "i", "f">>, <<".", "b", "m", "p">>, <<".", "w", "e", "b", "p">>,
      <<".", "t", "i", "f", "f">>, <<".", "s", "v", "g">> }
audioExts ==
    { <<".", "m", "p", "3">>, <<".", "w", "a", "v">>, <<".", "f", "l", "a", "c">>,
      <<".", "a", "a", "c">>, <<".", "o", "g", "g">>, <<".", "w", "m", "a">>,
      <<".", "m", "4", "a">> }
docExts ==
    { <<".", "p", "d", "f">>, <<".", "d", "o", "c">>, <<".", "d", "o", "c", "x">>,
      <<".", "t", "x", "t">>, <<".", "r", "t", "f">>, <<".", "x", "l", "s">>,
      <<".", "x", "l", "s", "x">>, <<".", "p", "p", "t">>, <<".", "p", "p", "t", "x">> }
subtitleExts ==
    { <<".", "s", "r", "t">>, <<".", "v", "t", "t">>, <<".", "a", "s", "s">>,
      <<".", "s", "s", "a">>, <<".", "s", "u", "b">> }

\* The document list left out.
getFileTypeNoDocuments(extension) ==
    IF extension \in videoExts THEN "video"
    ELSE IF extension \in imageExts THEN "image"
    ELSE IF extension \in audioExts THEN "audio"
    ELSE "other"

getFileType(extension) ==
    IF extension \in videoExts THEN "video"
    ELSE IF extension \in imageExts THEN "image"
    ELSE IF extension \in audioExts THEN "audio"
    ELSE IF extension \in docExts THEN "document"
    ELSE "other"


\* ------------------------------------------------------------------ state
\* The callers of startScan: the manual-scan route and the cron callback.
Procs == {"api", "cron"}

VARIABLES
    disk,              \* the filesystem: path -> [kind, size, mtime]
    directories,       \* table directories
    files,             \* table files
    scanJobs,          \* table scan_jobs
    nextId,            \* the ids gen_random_uuid() hands out next, per table
    now,               \* the clock read by new Date()
    currentScanJob,    \* FileScanner.currentScanJob
    deletedFiles,      \* FileScanner.deletedFiles
    emptyDirectories,  \* FileScanner.emptyDirectories
    call,              \* per caller: the startScan activation
    result,            \* per caller: how its last call ended
    cleaner,           \* the cleanup activation
    budget,            \* what the environment may still do
    snap,              \* history: the catalog as the last finished pass left it
    videoProgress,     \* table video_progress
    saver,             \* per request: the saveVideoProgress activation
    lastSave,          \* history: per (userId, fileId), the last completed save
    probe,             \* a file name handed to the classifier, and its answer
    listing            \* the GET /api/cleanup/deleted-files request

vars == <<disk, directories, files, scanJobs, nextId, now, currentScanJob,
          deletedFiles, emptyDirectories, call, result, cleaner, budget, snap,
          videoProgress, saver, lastSave, probe, listing>>

watching == <<videoProgress, saver, lastSave>>

\* What neither startScan nor the cleanup methods nor the disk touch.
apart == <<watching, probe, listing>>

catalog == <<directories, files, scanJobs, nextId>>
tracking == <<deletedFiles, emptyDirectories>>

NoNode == [kind |-> "none", size |-> 0, mtime |-> 0]
DirNode == [kind |-> "dir", size |-> 0, mtime |-> 0]
FileNode(size, mtime) == [kind |-> "file", size |-> size, mtime |-> mtime]

IsPrefix(p, q) == Len(p) <= Len(q) /\ SubSeq(q, 1, Len(p)) = p

\* fs.access(p) succeeds
Exists(p) == p \in Range(AllPaths) /\ disk[p].kind # "none"

\* fs.readdir(p, {withFileTypes: true}): the entries of directory p
Entries(p) ==
    LET kids == SelectSeq(AllPaths, LAMBDA q : Len(q) = Len(p) + 1 /\ IsPrefix(p, q)
                                               /\ disk[q].kind # "none")
    IN  [i \in 1..Len(kids) |-> [name |-> basename(kids[i]), kind |-> disk[kids[i]].kind]]

\* The disks a behaviour can start from.
EmptyDisk == [p \in Range(AllPaths) |-> NoNode]
RootOnlyDisk == [EmptyDisk EXCEPT ![RootPath] = DirNode]
FullDisk ==
    [p \in Range(AllPaths) |->
        IF p \in Range(DirUniverse) THEN DirNode
        ELSE IF p \in Range(FileUniverse) THEN FileNode(1, 1) ELSE NoNode]
SiblingDisk == [FullDisk EXCEPT ![SiblingPath] = DirNode,
                                ![OtherSubtitle] = FileNode(1, 1)]
MixedCaseDisk == [FullDisk EXCEPT ![UpperVideo] = FileNode(1, 1)]
InitDisks == {EmptyDisk, RootOnlyDisk, FullDisk}

\* Beside the locals of startScan an activation carries three history
\* fields: faults0 (the fault allowance when the call was made), clean (no
\* insert of the call has been refused and no cleanup has deleted rows
\* since) and listed (getAllFiles has returned).
IdleCall == [pc |-> "idle", job |-> NULL, startedAt |-> NULL, stack |-> <<>>,
             todo |-> <<>>, faults0 |-> 0, clean |-> TRUE, listed |-> FALSE]

\* No pass has finished, or the disk or a cleanup has changed things since.
NoSnap == [valid |-> FALSE, clean |-> FALSE, files |-> {}, directories |-> {},
           next |-> <<0, 0>>]
\* Beside its locals the cleanup activation carries two history fields: op
\* (the method of the latest call) and again (the call repeats the call
\* before it, which had returned normally: same method, same ids; once the
\* call has returned: and its ids were in neither table nor list by then).
IdleCleaner == [pc |-> "idle", ids |-> <<>>, outcome |-> "none", op |-> "none",
                again |-> FALSE]

\* The catalog outlives the process.  It is empty at first; StaleCatalog is
\* what an earlier run leaves that scanned the root when it held m.mp4, with
\* the thumbnail and the media metadata of the video filled in since (the
\* scanner itself never writes these columns; 1 stands for a value, NULL for
\* the column's null).
EmptyCatalog ==
    [directories |-> {}, files |-> {}, nextId |-> [dir |-> 1, file |-> 1, job |-> 1]]
StaleCatalog ==
    [directories |-> {[id |-> 1, name |-> n_d, path |-> RootPath, parentId |-> NULL,
                       fileCount |-> 1, totalSize |-> 1]},
     files |-> {[id |-> 1, name |-> n_m_mp4, path |-> <<n_d, n_m_mp4>>,
                 directoryId |-> 1, type |-> "video",
                 extension |-> <<".", "m", "p", "4">>, size |-> 1, modifiedAt |-> 1,
                 hasSubtitles |-> FALSE, subtitlePaths |-> <<>>,
                 thumbnailPath |-> 1, duration |-> 1, width |-> 1, height |-> 1]},
     nextId |-> [dir |-> 2, file |-> 2, job |-> 1]]

\* The POST /api/video-progress requests, and what they are keyed by: the
\* one user of the session and the file of the URL.
Savers == 1..MaxSaves
ProgressKeys == {1} \X (1..MaxWatched)
NewSaver == [pc |-> "new", userId |-> NULL, fileId |-> NULL, currentTime |-> 0,
             outcome |-> "none"]

NoProbe == [pc |-> "none", extension |-> <<>>, type |-> ""]

InitState(disks, catalogs, allowance) ==
    /\ disk \in disks
    /\ \E c \in catalogs :
          /\ directories = c.directories
          /\ files = c.files
          /\ nextId = c.nextId
    /\ scanJobs = {}
    /\ now = 1
    /\ currentScanJob = NULL
    /\ deletedFiles = <<>>
    /\ emptyDirectories = <<>>
    /\ call = [p \in Procs |-> IdleCall]
    /\ result = [p \in Procs |-> "none"]
    /\ cleaner = IdleCleaner
    /\ budget = allowance
    /\ snap = NoSnap
    /\ videoProgress = {}
    /\ saver = [s \in Savers |-> NewSaver]
    /\ lastSave = [k \in ProgressKeys |-> NULL]

\* The classifier is asked nothing.
InitWith(disks, catalogs, allowance) ==
    /\ InitState(disks, catalogs, allowance)
    /\ probe = NoProbe
    /\ listing = [pc |-> "none", ids |-> <<>>, answer |-> {}]

\* The scanner with its two callers, on a disk nobody else touches.
Init ==
    InitWith(InitDisks, {EmptyCatalog, StaleCatalog},
             [scans |-> MaxScans, changes |-> 0, cleanups |-> 0,
              faults |-> MaxFaults])

\* The scanner with one caller (SCAN_SCHEDULE=disabled), the cleanup routes
\* and a disk that changes.
InitSeq ==
    InitWith(InitDisks, {EmptyCatalog},
             [scans |-> SeqScans, changes |-> MaxChanges,
              cleanups |-> MaxCleanups, faults |-> SeqFaults])

\* An awaited I/O call may throw for a reason the model does not track
\* (EACCES, EIO, a lost database connection), while the budget lasts.
Faults == IF budget.faults > 0 THEN BOOLEAN ELSE {FALSE}
Spend(fault) == IF fault THEN [budget EXCEPT !.faults = @ - 1] ELSE budget

\* ------------------------------------------------------------------ the outside world
\* The disk changes between scan passes, not during one.
Quiet == \A p \in Procs : call[p].pc = "idle"

\* A file is written (created or modified) in an existing directory.
EnvWriteFile(f, size, mtime) ==
    /\ Quiet
    /\ budget.changes > 0
    /\ disk[dirname(f)].kind = "dir"
    /\ disk[f] # FileNode(size, mtime)
    /\ disk' = [disk EXCEPT ![f] = FileNode(size, mtime)]
    /\ budget' = [budget EXCEPT !.changes = @ - 1]
    /\ snap' = NoSnap
    /\ UNCHANGED <<apart, catalog, now, currentScanJob, tracking, call, result, cleaner>>

\* A file, or a directory with everything below it, is removed.
EnvRemove(p) ==
    /\ Quiet
    /\ budget.changes > 0
    /\ disk[p].kind # "none"
    /\ disk' = [q \in Range(AllPaths) |-> IF IsPrefix(p, q) THEN NoNode ELSE disk[q]]
    /\ budget' = [budget EXCEPT !.changes = @ - 1]
    /\ snap' = NoSnap
    /\ UNCHANGED <<apart, catalog, now, currentScanJob, tracking, call, result, cleaner>>

\* A directory is created (the root, or below an existing directory).
EnvMkdir(d) ==
    /\ Quiet
    /\ budget.changes > 0
    /\ disk[d].kind = "none"
    /\ IF Len(d) = 1 THEN TRUE ELSE disk[dirname(d)].kind = "dir"
    /\ disk' = [disk EXCEPT ![d] = DirNode]
    /\ budget' = [budget EXCEPT !.changes = @ - 1]
    /\ snap' = NoSnap
    /\ UNCHANGED <<apart, catalog, now, currentScanJob, tracking, call, result, cleaner>>

\* ------------------------------------------------------------------ catalog store
\* db.select().from(directories).where(eq(directories.path, path))
getDirectoryByPath(path) == {d \in directories : d.path = path}

\* db.insert(directories).values(directory): the path column is unique
canCreateDirectory(path) == \A d \in directories : d.path # path

createDirectory(data) ==
    [id |-> nextId.dir, name |-> data.name, path |-> data.path,
     parentId |-> data.parentId, fileCount |-> 0, totalSize |-> 0]

\* The statistics added to the stored ones instead of replacing them.
updateDirectoryAdding(id, fileCount, totalSize) ==
    {IF d.id = id THEN [d EXCEPT !.fileCount = @ + fileCount, !.totalSize = @ + totalSize]
                  ELSE d : d \in directories}

\* The update taking the record out of its parent as well.
updateDirectoryDetaching(id, fileCount, totalSize) ==
    {IF d.id = id THEN [d EXCEPT !.fileCount = fileCount, !.totalSize = totalSize,
                                 !.parentId = NULL]
                  ELSE d : d \in directories}

\* db.update(directories).set(updates).where(eq(directories.id, id))
updateDirectory(id, fileCount, totalSize) ==
    {IF d.id = id THEN [d EXCEPT !.fileCount = fileCount, !.totalSize = totalSize]
                  ELSE d : d \in directories}

\* db.insert(scanJobs).values(job)
createScanJob(startedAt) ==
    [id |-> nextId.job, status |-> "scanning", progress |-> 0,
     startedAt |-> startedAt, completedAt |-> NULL, error |-> ""]

\* The update without its where clause: every row takes the updates.
updateScanJobEveryRow(id, updates) ==
    {[f \in DOMAIN j |-> IF f \in DOMAIN updates THEN updates[f] ELSE j[f]] : j \in scanJobs}

\* db.update(scanJobs).set(updates).where(eq(scanJobs.id, id))
updateScanJob(id, updates) ==
    {IF j.id = id
        THEN [f \in DOMAIN j |-> IF f \in DOMAIN updates THEN updates[f] ELSE j[f]]
        ELSE j : j \in scanJobs}

\* db.select().from(scanJobs).orderBy(desc(scanJobs.startedAt)).limit(1):
\* the rows the query can return, any one of those that start latest (none
\* when the table is empty, and the route answers idle).
getCurrentScanJob ==
    {j \in scanJobs : \A k \in scanJobs : k.startedAt <= j.startedAt}

\* ------------------------------------------------------------------ startScan
\* The guard test at the top of startScan and of scheduledScan.
GuardSet == currentScanJob # NULL

\* How a call that is over leaves its caller.
Finish(p, outcome) ==
    /\ call' = [call EXCEPT ![p] = IdleCall]
    /\ result' = [result EXCEPT ![p] = outcome]

\* error.message of what startScan throws: the two errors it makes itself,
\* and the error of a storage call passed on.
MessageOf(outcome) ==
    CASE outcome = "AlreadyInProgress" -> "Scan already in progress"
      [] outcome = "DirectoryNotAccessible" -> "Directory not accessible: d"
      [] OTHER -> "storage error"

\* Every error answered with 409.
ScanStartAnswerConflict(outcome) ==
    IF outcome = "ok" THEN 200 ELSE 409

\* The HTTP status POST /api/scan/start answers with once startScan has
\* returned or thrown.
ScanStartAnswer(outcome) ==
    IF outcome = "ok" THEN 200
    ELSE IF MessageOf(outcome) = "Scan already in progress" THEN 409
    ELSE 500

\* A guard test that clears the guard as it rejects the call.
StartScanClearing ==
    /\ call["api"].pc = "idle"
    /\ budget.scans > 0
    /\ budget' = [budget EXCEPT !.scans = @ - 1]
    /\ now' = now + 1
    /\ IF GuardSet
          THEN /\ Finish("api", "AlreadyInProgress")
               /\ currentScanJob' = NULL
          ELSE /\ call' = [call EXCEPT !["api"].pc = "access",
                                       !["api"].faults0 = budget.faults]
               /\ result' = [result EXCEPT !["api"] = "none"]
               /\ UNCHANGED currentScanJob
    /\ UNCHANGED <<apart, disk, catalog, tracking, cleaner, snap>>

\* POST /api/scan/start calls startScan: the guard is tested and, when it is
\* clear, fs.access(directory) is awaited.
StartScan ==
    /\ call["api"].pc = "idle"
    /\ budget.scans > 0
    /\ budget' = [budget EXCEPT !.scans = @ - 1]
    /\ now' = now + 1
    /\ IF GuardSet
          THEN Finish("api", "AlreadyInProgress")
          ELSE /\ call' = [call EXCEPT !["api"].pc = "access",
                                       !["api"].faults0 = budget.faults]
               /\ result' = [result EXCEPT !["api"] = "none"]
    /\ UNCHANGED <<apart, disk, catalog, currentScanJob, tracking, cleaner, snap>>

\* The cron callback calls scheduledScan: it skips when the guard is set and
\* calls startScan otherwise, which tests the guard again in the same turn.
ScheduledScan ==
    /\ call["cron"].pc = "idle"
    /\ budget.scans > 0
    /\ budget' = [budget EXCEPT !.scans = @ - 1]
    /\ now' = now + 1
    /\ IF GuardSet
          THEN Finish("cron", "skipped")
          ELSE /\ call' = [call EXCEPT !["cron"].pc = "access",
                                       !["cron"].faults0 = budget.faults]
               /\ result' = [result EXCEPT !["cron"] = "none"]
    /\ UNCHANGED <<apart, disk, catalog, currentScanJob, tracking, cleaner, snap>>

\* The outcome of fs.access ignored: createScanJob is awaited in any case.
AccessUnchecked(p, fault) ==
    /\ call[p].pc = "access"
    /\ budget' = Spend(fault)
    /\ call' = [call EXCEPT ![p].pc = "createJob", ![p].startedAt = now]
    /\ UNCHANGED <<apart, disk, catalog, now, currentScanJob, tracking, result, cleaner, snap>>

\* fs.access(directory) returns: createScanJob is awaited; or it throws:
\* "Directory not accessible".
AccessReturns(p, fault) ==
    /\ call[p].pc = "access"
    /\ budget' = Spend(fault)
    /\ IF Exists(RootPath) /\ ~fault
          THEN /\ call' = [call EXCEPT ![p].pc = "createJob", ![p].startedAt = now]
               /\ UNCHANGED result
          ELSE Finish(p, "DirectoryNotAccessible")
    /\ UNCHANGED <<apart, disk, catalog, now, currentScanJob, tracking, cleaner, snap>>

\* ------------------------------------------------------------------ scanDirectory
\* One activation of scanDirectory(dirPath, scanJobId, parentId) together with
\* the locals of the batchProcessFiles it calls; `at` names the awaited call.
NewFrame(dirPath, parentId) ==
    [at |-> "readdir", dirPath |-> dirPath, parentId |-> parentId,
     entries |-> <<>>, dirId |-> NULL, i |-> 1, infos |-> <<>>, existing |-> {},
     k |-> 1, toCreate |-> <<>>, toUpdate |-> <<>>]

Top(stack) == stack[Len(stack)]
SetTop(stack, f) == [stack EXCEPT ![Len(stack)] = f]
Front(stack) == SubSeq(stack, 1, Len(stack) - 1)

\* entries.filter(entry => entry.isFile())
fileEntries(entries) == SelectSeq(entries, LAMBDA e : e.kind = "file")

RECURSIVE Unwind(_), Descend(_), DescendToLast(_)

\* The loop over the entries going to its last subdirectory at once.
DescendToLast(stack) ==
    LET f == Top(stack)
        J == {j \in f.i..Len(f.entries) : f.entries[j].kind = "dir"}
    IN  IF J # {}
           THEN LET j == CHOOSE x \in J : \A y \in J : x >= y
                IN  Append(SetTop(stack, [f EXCEPT !.i = j + 1, !.at = "sub"]),
                           NewFrame(join(f.dirPath, f.entries[j].name), f.dirId))
           ELSE IF fileEntries(f.entries) = <<>>
                   THEN Unwind(stack)
                   ELSE SetTop(stack, [f EXCEPT !.at = "stat"])

\* The loop over the entries without its recursive call: subdirectories are
\* not entered.
DescendFlat(stack) ==
    IF fileEntries(Top(stack).entries) = <<>>
       THEN Unwind(stack)
       ELSE SetTop(stack, [Top(stack) EXCEPT !.at = "stat"])

\* The top activation has its Directory record: the loop over the entries
\* goes on from entry i to the next subdirectory and awaits its scanDirectory;
\* after the last one batchProcessFiles starts, which returns at once when
\* the directory lists no file and awaits the fs.stat calls otherwise.
Descend(stack) ==
    LET f == Top(stack)
        J == {j \in f.i..Len(f.entries) : f.entries[j].kind = "dir"}
    IN  IF J # {}
           THEN LET j == CHOOSE x \in J : \A y \in J : x <= y
                IN  Append(SetTop(stack, [f EXCEPT !.i = j + 1, !.at = "sub"]),
                           NewFrame(join(f.dirPath, f.entries[j].name), f.dirId))
           ELSE IF fileEntries(f.entries) = <<>>
                   THEN Unwind(stack)
                   ELSE SetTop(stack, [f EXCEPT !.at = "stat"])

\* The top activation returns (normally, or through its catch, which logs and
\* swallows the error): its caller's loop goes on.
Unwind(stack) == IF Len(stack) <= 1 THEN <<>> ELSE Descend(Front(stack))

\* The turn ends with the stack ns.  When the scanDirectory of the root has
\* returned, startScan goes on into checkForDeletedFiles, which empties
\* deletedFiles and awaits storage.getAllFiles().
ContinueAfter(p, ns, refused) ==
    IF ns = <<>>
       THEN /\ call' = [call EXCEPT ![p].stack = <<>>, ![p].pc = "getAll",
                                    ![p].clean = @ /\ ~refused]
            /\ deletedFiles' = <<>>
       ELSE /\ call' = [call EXCEPT ![p].stack = ns, ![p].clean = @ /\ ~refused]
            /\ UNCHANGED deletedFiles

Continue(p, ns) == ContinueAfter(p, ns, FALSE)

Scanning(p, at) ==
    /\ call[p].pc = "scan"
    /\ Top(call[p].stack).at = at

\* storage.createScanJob returns: the guard is set and scanDirectory(root)
\* awaits fs.readdir; or it throws, outside the try block.
CreateScanJobReturns(p, fault) ==
    /\ call[p].pc = "createJob"
    /\ budget' = Spend(fault)
    /\ IF fault
          THEN /\ Finish(p, "error")
               /\ UNCHANGED <<scanJobs, nextId, currentScanJob>>
          ELSE /\ scanJobs' = scanJobs \cup {createScanJob(call[p].startedAt)}
               /\ nextId' = [nextId EXCEPT !.job = @ + 1]
               /\ currentScanJob' = nextId.job
               /\ call' = [call EXCEPT ![p].pc = "scan", ![p].job = nextId.job,
                                       ![p].stack = <<NewFrame(RootPath, NULL)>>]
               /\ UNCHANGED result
    /\ UNCHANGED <<apart, disk, directories, files, now, tracking, cleaner, snap>>

\* scanDirectory without its own catch: a failed fs.readdir ends the whole
\* traversal (the error surfaces in the scanDirectory of the root).
ReaddirRethrows(p, fault) ==
    /\ Scanning(p, "readdir")
    /\ budget' = Spend(fault)
    /\ LET f == Top(call[p].stack)
       IN  IF disk[f.dirPath].kind = "dir" /\ ~fault
              THEN Continue(p, SetTop(call[p].stack,
                                      [f EXCEPT !.entries = Entries(f.dirPath),
                                                !.at = "getDir"]))
              ELSE Continue(p, <<>>)
    /\ UNCHANGED <<apart, disk, catalog, now, currentScanJob, emptyDirectories, result, cleaner, snap>>

\* fs.readdir(dirPath, {withFileTypes: true}) returns.
ReaddirReturns(p, fault) ==
    /\ Scanning(p, "readdir")
    /\ budget' = Spend(fault)
    /\ LET f == Top(call[p].stack)
       IN  IF disk[f.dirPath].kind = "dir" /\ ~fault
              THEN Continue(p, SetTop(call[p].stack,
                                      [f EXCEPT !.entries = Entries(f.dirPath),
                                                !.at = "getDir"]))
              ELSE Continue(p, Unwind(call[p].stack))
    /\ UNCHANGED <<apart, disk, catalog, now, currentScanJob, emptyDirectories, result, cleaner, snap>>

\* storage.getDirectoryByPath(dirPath) returns.
GetDirectoryByPathReturns(p, fault) ==
    /\ Scanning(p, "getDir")
    /\ budget' = Spend(fault)
    /\ LET f == Top(call[p].stack)
           found == getDirectoryByPath(f.dirPath)
       IN  IF fault THEN Continue(p, Unwind(call[p].stack))
           ELSE IF found = {}
              THEN Continue(p, SetTop(call[p].stack, [f EXCEPT !.at = "createDir"]))
              ELSE Continue(p, Descend(SetTop(call[p].stack,
                        [f EXCEPT !.dirId = (CHOOSE d \in found : TRUE).id])))
    /\ UNCHANGED <<apart, disk, catalog, now, currentScanJob, emptyDirectories, result, cleaner, snap>>

\* storage.createDirectory({name, path, parentId}) returns.
CreateDirectoryReturns(p, fault) ==
    /\ Scanning(p, "createDir")
    /\ budget' = Spend(fault)
    /\ LET f == Top(call[p].stack)
           data == [name |-> basename(f.dirPath), path |-> f.dirPath,
                    parentId |-> f.parentId]
       IN  IF ~fault /\ canCreateDirectory(f.dirPath)
              THEN /\ directories' = directories \cup {createDirectory(data)}
                   /\ nextId' = [nextId EXCEPT !.dir = @ + 1]
                   /\ Continue(p, Descend(SetTop(call[p].stack,
                                                 [f EXCEPT !.dirId = nextId.dir])))
              ELSE /\ ContinueAfter(p, Unwind(call[p].stack), ~fault)
                   /\ UNCHANGED <<directories, nextId>>
    /\ UNCHANGED <<apart, disk, files, scanJobs, now, currentScanJob, emptyDirectories,
                   result, cleaner, snap>>

\* ------------------------------------------------------------------ batchProcessFiles
\* A Date is an object: the one drizzle builds from a timestamp column and the
\* one fs.stat builds are never the same object, whatever time they hold.
DateOfRow(ms) == [obj |-> "row", ms |-> ms]
DateOfStat(ms) == [obj |-> "stat", ms |-> ms]

\* a !== b on two objects compares their identity.
StrictNotEqual(a, b) == a # b

\* const needsUpdate = !existingFile || existingFile.modifiedAt !== info.stats.mtime
\* (existing: the records found for the path, none or one)
needsUpdate(existing, info) ==
    \/ existing = {}
    \/ \E e \in existing : StrictNotEqual(DateOfRow(e.modifiedAt), DateOfStat(info.mtime))

\* fs.stat of the file entries of a directory, entry `bad` (if any) throwing
\* for an untracked reason and every entry no longer on disk throwing ENOENT:
\* fileInfos holds the others.  The stat calls read nothing but the disk and
\* write nothing, so the loop is one step.
statAll(dirPath, entries, bad) ==
    LET fe == fileEntries(entries)
        ok == SelectSeq([j \in 1..Len(fe) |-> [j |-> j, name |-> fe[j].name]],
                        LAMBDA e : e.j # bad /\ disk[join(dirPath, e.name)].kind # "none")
    IN  [j \in 1..Len(ok) |->
            LET fullPath == join(dirPath, ok[j].name)
                extension == toLowerCase(extname(ok[j].name))
            IN  [name |-> ok[j].name, fullPath |-> fullPath,
                 size |-> disk[fullPath].size, mtime |-> disk[fullPath].mtime,
                 extension |-> extension, fileType |-> getFileType(extension)]]

\* storage.getFilesByPaths(filePaths)
getFilesByPaths(filePaths) == {r \in files : r.path \in filePaths}

\* The InsertFile with hasSubtitles left at its initial false.
fileDataFlagless(info, directoryId, subtitlePaths) ==
    [name |-> info.name, path |-> info.fullPath, directoryId |-> directoryId,
     type |-> info.fileType, extension |-> info.extension, size |-> info.size,
     modifiedAt |-> info.mtime, hasSubtitles |-> FALSE,
     subtitlePaths |-> subtitlePaths]

\* The InsertFile built for a dirty entry.
fileDataOf(info, directoryId, subtitlePaths) ==
    [name |-> info.name, path |-> info.fullPath, directoryId |-> directoryId,
     type |-> info.fileType, extension |-> info.extension, size |-> info.size,
     modifiedAt |-> info.mtime, hasSubtitles |-> Len(subtitlePaths) > 0,
     subtitlePaths |-> subtitlePaths]

\* filesToUpdate.push / filesToCreate.push for entry k, then on to entry k + 1
pushData(f, subtitlePaths) ==
    LET info == f.infos[f.k]
        ex == {e \in f.existing : e.path = info.fullPath}
        data == fileDataOf(info, f.dirId, subtitlePaths)
    IN  IF ex # {}
           THEN [f EXCEPT !.k = @ + 1,
                          !.toUpdate = Append(@, [id |-> (CHOOSE e \in ex : TRUE).id,
                                                  data |-> data])]
           ELSE [f EXCEPT !.k = @ + 1, !.toCreate = Append(@, data)]

\* What batchProcessFiles awaits once the loop over fileInfos is over.
afterLoop(f) ==
    IF f.toCreate # <<>> THEN [f EXCEPT !.at = "create"]
    ELSE IF f.toUpdate # <<>> THEN [f EXCEPT !.at = "update"]
    ELSE [f EXCEPT !.at = "updDir"]

RECURSIVE runLoop(_)
\* for (const info of fileInfos), from entry k on, up to the next await: a
\* dirty video entry awaits findSubtitleFiles.
runLoop(f) ==
    IF f.k > Len(f.infos) THEN afterLoop(f)
    ELSE LET info == f.infos[f.k]
             ex == {e \in f.existing : e.path = info.fullPath}
         IN  IF ~needsUpdate(ex, info) THEN runLoop([f EXCEPT !.k = @ + 1])
             ELSE IF info.fileType = "video" THEN [f EXCEPT !.at = "subs"]
             ELSE runLoop(pushData(f, <<>>))

\* findSubtitleFiles(videoPath), its fs.readdir having returned
findSubtitleFiles(videoPath) ==
    LET baseName == parseName(videoPath)
        directory == dirname(videoPath)
        listed == Entries(directory)
        names == [j \in 1..Len(listed) |-> listed[j].name]
        hits == SelectSeq(names, LAMBDA file :
                    /\ toLowerCase(extname(file)) \in subtitleExts
                    /\ startsWith(parseName(<<file>>), baseName))
    IN  [j \in 1..Len(hits) |-> join(directory, hits[j])]

RECURSIVE sumSizes(_)
sumSizes(infos) == IF infos = <<>> THEN 0 ELSE Head(infos).size + sumSizes(Tail(infos))

\* storage.batchCreateFiles(filesToCreate): one insert of all rows
canCreateFiles(rows) ==
    \A j \in 1..Len(rows) : \A r \in files : r.path # rows[j].path

batchCreateFiles(rows) ==
    {[id |-> nextId.file + j - 1, name |-> rows[j].name, path |-> rows[j].path,
      directoryId |-> rows[j].directoryId, type |-> rows[j].type,
      extension |-> rows[j].extension, size |-> rows[j].size,
      modifiedAt |-> rows[j].modifiedAt, hasSubtitles |-> rows[j].hasSubtitles,
      subtitlePaths |-> rows[j].subtitlePaths,
      thumbnailPath |-> NULL, duration |-> NULL, width |-> NULL,
      height |-> NULL] : j \in 1..Len(rows)}

\* The update writing a whole row: the columns the data does not name are
\* reset to null.
batchUpdateFilesWholeRow(rows) ==
    {IF \E j \in 1..Len(rows) : rows[j].id = r.id
        THEN LET j == CHOOSE x \in 1..Len(rows) : rows[x].id = r.id
                 d == rows[j].data
             IN  [id |-> r.id, name |-> d.name, path |-> d.path,
                  directoryId |-> d.directoryId, type |-> d.type,
                  extension |-> d.extension, size |-> d.size,
                  modifiedAt |-> d.modifiedAt, hasSubtitles |-> d.hasSubtitles,
                  subtitlePaths |-> d.subtitlePaths,
                  thumbnailPath |-> NULL, duration |-> NULL, width |-> NULL,
                  height |-> NULL]
        ELSE r : r \in files}

\* storage.batchUpdateFiles(filesToUpdate): each row with a listed id takes the data
batchUpdateFiles(rows) ==
    {IF \E j \in 1..Len(rows) : rows[j].id = r.id
        THEN LET j == CHOOSE x \in 1..Len(rows) : rows[x].id = r.id
                 d == rows[j].data
             IN  [id |-> r.id, name |-> d.name, path |-> d.path,
                  directoryId |-> d.directoryId, type |-> d.type,
                  extension |-> d.extension, size |-> d.size,
                  modifiedAt |-> d.modifiedAt, hasSubtitles |-> d.hasSubtitles,
                  subtitlePaths |-> d.subtitlePaths,
                  thumbnailPath |-> r.thumbnailPath, duration |-> r.duration,
                  width |-> r.width, height |-> r.height]
        ELSE r : r \in files}

\* The fs.stat calls of batchProcessFiles return.
StatReturns(p, bad) ==
    /\ Scanning(p, "stat")
    /\ bad # 0 => /\ budget.faults > 0
                  /\ bad <= Len(fileEntries(Top(call[p].stack).entries))
    /\ budget' = Spend(bad # 0)
    /\ LET f == Top(call[p].stack)
           infos == statAll(f.dirPath, f.entries, bad)
       IN  IF infos = <<>>
              THEN Continue(p, Unwind(call[p].stack))
              ELSE Continue(p, SetTop(call[p].stack,
                                      [f EXCEPT !.infos = infos, !.at = "getFiles"]))
    /\ UNCHANGED <<apart, disk, catalog, now, currentScanJob, emptyDirectories, result, cleaner, snap>>

\* storage.getFilesByPaths returns and the loop over fileInfos starts.
GetFilesByPathsReturns(p, fault) ==
    /\ Scanning(p, "getFiles")
    /\ budget' = Spend(fault)
    /\ LET f == Top(call[p].stack)
           paths == {f.infos[j].fullPath : j \in 1..Len(f.infos)}
       IN  IF fault
              THEN Continue(p, Unwind(call[p].stack))
              ELSE Continue(p, SetTop(call[p].stack,
                        runLoop([f EXCEPT !.existing = getFilesByPaths(paths), !.k = 1])))
    /\ UNCHANGED <<apart, disk, catalog, now, currentScanJob, emptyDirectories, result, cleaner, snap>>

\* findSubtitleFiles returns (the empty list when its fs.readdir threw) and
\* the loop goes on.
FindSubtitleFilesReturns(p, fault) ==
    /\ Scanning(p, "subs")
    /\ budget' = Spend(fault)
    /\ LET f == Top(call[p].stack)
           videoPath == f.infos[f.k].fullPath
           subs == IF fault \/ disk[dirname(videoPath)].kind # "dir"
                      THEN <<>> ELSE findSubtitleFiles(videoPath)
       IN  Continue(p, SetTop(call[p].stack, runLoop(pushData(f, subs))))
    /\ UNCHANGED <<apart, disk, catalog, now, currentScanJob, emptyDirectories, result, cleaner, snap>>

\* storage.batchCreateFiles returns.
BatchCreateFilesReturns(p, fault) ==
    /\ Scanning(p, "create")
    /\ budget' = Spend(fault)
    /\ LET f == Top(call[p].stack)
       IN  IF ~fault /\ canCreateFiles(f.toCreate)
              THEN /\ files' = files \cup batchCreateFiles(f.toCreate)
                   /\ nextId' = [nextId EXCEPT !.file = @ + Len(f.toCreate)]
                   /\ Continue(p, SetTop(call[p].stack,
                          [f EXCEPT !.at = IF f.toUpdate # <<>> THEN "update" ELSE "updDir"]))
              ELSE /\ ContinueAfter(p, Unwind(call[p].stack), ~fault)
                   /\ UNCHANGED <<files, nextId>>
    /\ UNCHANGED <<apart, disk, directories, scanJobs, now, currentScanJob, emptyDirectories,
                   result, cleaner, snap>>

\* storage.batchUpdateFiles returns.
BatchUpdateFilesReturns(p, fault) ==
    /\ Scanning(p, "update")
    /\ budget' = Spend(fault)
    /\ LET f == Top(call[p].stack)
       IN  IF ~fault
              THEN /\ files' = batchUpdateFiles(f.toUpdate)
                   /\ Continue(p, SetTop(call[p].stack, [f EXCEPT !.at = "updDir"]))
              ELSE /\ Continue(p, Unwind(call[p].stack))
                   /\ UNCHANGED files
    /\ UNCHANGED <<apart, disk, directories, scanJobs, nextId, now, currentScanJob,
                   emptyDirectories, result, cleaner, snap>>

\* storage.updateDirectory(directoryId, {fileCount, totalSize}) returns.
UpdateDirectoryReturns(p, fault) ==
    /\ Scanning(p, "updDir")
    /\ budget' = Spend(fault)
    /\ LET f == Top(call[p].stack)
       IN  /\ directories' = IF fault THEN directories
                             ELSE updateDirectory(f.dirId, Len(f.infos), sumSizes(f.infos))
           /\ Continue(p, Unwind(call[p].stack))
    /\ UNCHANGED <<apart, disk, files, scanJobs, nextId, now, currentScanJob, emptyDirectories,
                   result, cleaner, snap>>

\* ------------------------------------------------------------------ the sweeps
RECURSIVE byId(_)
\* the rows of a select without ORDER BY, in insertion (id) order
byId(rows) ==
    IF rows = {} THEN <<>>
    ELSE LET r == CHOOSE x \in rows : \A y \in rows : x.id <= y.id
         IN  <<r>> \o byId(rows \ {r})

\* storage.getAllFiles()
getAllFiles == byId(files)

\* storage.getEmptyDirectories(): fileCount 0 and no child directory
getEmptyDirectories ==
    byId({d \in directories :
            /\ d.fileCount = 0
            /\ \A c \in directories : c.parentId # d.id})

\* checkForDeletedFiles is over: checkForEmptyDirectories empties
\* emptyDirectories and awaits storage.getEmptyDirectories().
ToEmptyCheck(p, listed) ==
    /\ call' = [call EXCEPT ![p].pc = "getEmpty", ![p].todo = <<>>,
                            ![p].listed = listed]
    /\ emptyDirectories' = <<>>

\* checkForEmptyDirectories is over: startScan awaits
\* storage.updateScanJob(id, {status: "completed", progress: 100, completedAt}).
ToMarkCompleted(p) ==
    call' = [call EXCEPT ![p].pc = "markCompleted", ![p].todo = <<>>]

\* checkForEmptyDirectories left out: after the deleted-file sweep startScan
\* goes straight to the completed update.
GetAllFilesSkipsEmptyCheck(p, fault) ==
    /\ call[p].pc = "getAll"
    /\ budget' = Spend(fault)
    /\ IF fault \/ getAllFiles = <<>>
          THEN /\ ToMarkCompleted(p)
               /\ UNCHANGED emptyDirectories
          ELSE /\ call' = [call EXCEPT ![p].pc = "accessFile", ![p].todo = getAllFiles,
                                       ![p].listed = TRUE]
               /\ UNCHANGED emptyDirectories
    /\ UNCHANGED <<apart, disk, catalog, now, currentScanJob, deletedFiles, result, cleaner, snap>>

\* storage.getAllFiles() returns: fs.access of the first file is awaited.
GetAllFilesReturns(p, fault) ==
    /\ call[p].pc = "getAll"
    /\ budget' = Spend(fault)
    /\ IF fault \/ getAllFiles = <<>>
          THEN ToEmptyCheck(p, ~fault)
          ELSE /\ call' = [call EXCEPT ![p].pc = "accessFile", ![p].todo = getAllFiles,
                                       ![p].listed = TRUE]
               /\ UNCHANGED emptyDirectories
    /\ UNCHANGED <<apart, disk, catalog, now, currentScanJob, deletedFiles, result, cleaner, snap>>

\* A sweep that deletes the record of a file it finds missing.
AccessFileRemoving(p, fault) ==
    /\ call[p].pc = "accessFile"
    /\ budget' = Spend(fault)
    /\ LET file == Head(call[p].todo)
           missing == ~Exists(file.path) \/ fault
       IN  /\ deletedFiles' = IF missing THEN Append(deletedFiles, file.id)
                              ELSE deletedFiles
           /\ files' = IF missing THEN {r \in files : r.id # file.id} ELSE files
           /\ IF Tail(call[p].todo) = <<>>
                 THEN ToEmptyCheck(p, call[p].listed)
                 ELSE /\ call' = [call EXCEPT ![p].todo = Tail(@)]
                      /\ UNCHANGED emptyDirectories
    /\ UNCHANGED <<apart, disk, directories, scanJobs, nextId, now, currentScanJob, result,
                   cleaner, snap>>

\* fs.access(file.path) returns or throws: a throw records the file as deleted.
AccessFileReturns(p, fault) ==
    /\ call[p].pc = "accessFile"
    /\ budget' = Spend(fault)
    /\ LET file == Head(call[p].todo)
       IN  /\ deletedFiles' = IF Exists(file.path) /\ ~fault THEN deletedFiles
                              ELSE Append(deletedFiles, file.id)
           /\ IF Tail(call[p].todo) = <<>>
                 THEN ToEmptyCheck(p, call[p].listed)
                 ELSE /\ call' = [call EXCEPT ![p].todo = Tail(@)]
                      /\ UNCHANGED emptyDirectories
    /\ UNCHANGED <<apart, disk, catalog, now, currentScanJob, result, cleaner, snap>>

\* storage.getEmptyDirectories() returns: fs.stat of the first one is awaited.
GetEmptyDirectoriesReturns(p, fault) ==
    /\ call[p].pc = "getEmpty"
    /\ budget' = Spend(fault)
    /\ IF fault \/ getEmptyDirectories = <<>>
          THEN ToMarkCompleted(p)
          ELSE call' = [call EXCEPT ![p].pc = "statDir", ![p].todo = getEmptyDirectories]
    /\ UNCHANGED <<apart, disk, catalog, now, currentScanJob, tracking, result, cleaner, snap>>

\* The loop of checkForEmptyDirectories moves to the next directory.
NextEmptyDirectory(p) ==
    IF Tail(call[p].todo) = <<>>
       THEN ToMarkCompleted(p)
       ELSE call' = [call EXCEPT ![p].pc = "statDir", ![p].todo = Tail(@)]

\* fs.stat(directory.path) returns: a throw, or a path that is no directory,
\* records the id; a directory has its fs.readdir awaited.
StatDirectoryReturns(p, fault) ==
    /\ call[p].pc = "statDir"
    /\ budget' = Spend(fault)
    /\ LET directory == Head(call[p].todo)
       IN  IF Exists(directory.path) /\ disk[directory.path].kind = "dir" /\ ~fault
              THEN /\ call' = [call EXCEPT ![p].pc = "readEmpty"]
                   /\ UNCHANGED emptyDirectories
              ELSE /\ emptyDirectories' = Append(emptyDirectories, directory.id)
                   /\ NextEmptyDirectory(p)
    /\ UNCHANGED <<apart, disk, catalog, now, currentScanJob, deletedFiles, result, cleaner, snap>>

\* fs.readdir(directory.path) returns: no entry, or a throw, records the id.
ReaddirEmptyReturns(p, fault) ==
    /\ call[p].pc = "readEmpty"
    /\ budget' = Spend(fault)
    /\ LET directory == Head(call[p].todo)
           listed == Exists(directory.path) /\ disk[directory.path].kind = "dir" /\ ~fault
       IN  /\ emptyDirectories' =
                  IF listed /\ Len(Entries(directory.path)) # 0 THEN emptyDirectories
                  ELSE Append(emptyDirectories, directory.id)
           /\ NextEmptyDirectory(p)
    /\ UNCHANGED <<apart, disk, catalog, now, currentScanJob, deletedFiles, result, cleaner, snap>>

\* ------------------------------------------------------------------ the end of startScan
\* The finally block left out: the guard keeps its value.
FinallySkipped == UNCHANGED currentScanJob

\* finally { this.currentScanJob = null }
Finally == currentScanJob' = NULL

\* No I/O call has thrown since p's call was made (for an untracked reason
\* or for a violated unique constraint), and no cleanup has deleted rows
\* since.
Undisturbed(p) == budget.faults = call[p].faults0 /\ call[p].clean

\* History: the catalog as p's pass leaves it.
TakeSnap(p, fault) ==
    [valid |-> TRUE, clean |-> Undisturbed(p) /\ ~fault,
     files |-> files, directories |-> directories,
     next |-> <<nextId.dir, nextId.file>>]

\* The final update without its progress: 100.
MarkCompletedNoProgress(p, fault) ==
    /\ call[p].pc = "markCompleted"
    /\ budget' = Spend(fault)
    /\ IF fault
          THEN /\ call' = [call EXCEPT ![p].pc = "markError"]
               /\ UNCHANGED <<scanJobs, currentScanJob, result, snap>>
          ELSE /\ scanJobs' = updateScanJob(call[p].job,
                                  [status |-> "completed", completedAt |-> now])
               /\ Finally
               /\ Finish(p, "ok")
               /\ snap' = TakeSnap(p, fault)
    /\ UNCHANGED <<apart, disk, directories, files, nextId, now, tracking, cleaner>>

\* updateScanJob(completed) returns, or throws into the catch block, which
\* awaits updateScanJob(id, {status: "error", error, completedAt}).
MarkCompletedReturns(p, fault) ==
    /\ call[p].pc = "markCompleted"
    /\ budget' = Spend(fault)
    /\ IF fault
          THEN /\ call' = [call EXCEPT ![p].pc = "markError"]
               /\ UNCHANGED <<scanJobs, currentScanJob, result, snap>>
          ELSE /\ scanJobs' = updateScanJob(call[p].job,
                                  [status |-> "completed", progress |-> 100,
                                   completedAt |-> now])
               /\ Finally
               /\ Finish(p, "ok")
               /\ snap' = TakeSnap(p, fault)
    /\ UNCHANGED <<apart, disk, directories, files, nextId, now, tracking, cleaner>>

\* updateScanJob(error) returns and the error is thrown on, or it throws
\* itself; the finally block runs in both cases.
MarkErrorReturns(p, fault) ==
    /\ call[p].pc = "markError"
    /\ budget' = Spend(fault)
    /\ scanJobs' = IF fault THEN scanJobs
                   ELSE updateScanJob(call[p].job,
                            [status |-> "error", error |-> "message",
                             completedAt |-> now])
    /\ Finally
    /\ Finish(p, "error")
    /\ snap' = TakeSnap(p, fault)
    /\ UNCHANGED <<apart, disk, directories, files, nextId, now, tracking, cleaner>>

\* ------------------------------------------------------------------ cleanup
\* The id lists a cleanup request carries: up to MaxIds ids, of records in
\* the table, of entries of the tracking list or of the request before (any
\* other id is one that batch-delete ignores and indexOf does not find).
IdLists(pool) == UNION {[1..n -> pool] : n \in 1..MaxIds}

RECURSIVE spliceAll(_, _)
\* for (const id of ids) { index = list.indexOf(id); if (index > -1) list.splice(index, 1) }
spliceAll(list, ids) ==
    IF ids = <<>> THEN list
    ELSE LET hits == {j \in 1..Len(list) : list[j] = Head(ids)}
             rest == IF hits = {} THEN list
                     ELSE LET j == CHOOSE x \in hits : \A y \in hits : x <= y
                          IN  SubSeq(list, 1, j - 1) \o SubSeq(list, j + 1, Len(list))
         IN  spliceAll(rest, Tail(ids))

\* History: a batch-delete that went through lands in the passes in flight.
Disturb(fault) ==
    [p \in Procs |-> IF fault \/ call[p].pc = "idle" THEN call[p]
                     ELSE [call[p] EXCEPT !.clean = FALSE]]

\* storage.batchDeleteFiles(ids) / storage.batchDeleteDirectories(ids)
batchDeleteFiles(ids) == {r \in files : r.id \notin Range(ids)}
batchDeleteDirectories(ids) == {d \in directories : d.id \notin Range(ids)}

\* History: the call made now repeats the latest call, which returned normally.
Repeats(op, ids) == cleaner.op = op /\ cleaner.ids = ids /\ cleaner.outcome = "ok"

\* History: none of the ids is in the table or in the tracking list.
Gone(ids, table, list) ==
    \A i \in Range(ids) : i \notin {r.id : r \in table} /\ i \notin Range(list)

\* POST /api/cleanup/delete-files calls cleanupDeletedFiles(fileIds), which
\* awaits storage.batchDeleteFiles.
CleanupDeletedFiles(ids) ==
    /\ cleaner.pc = "idle"
    /\ budget.cleanups > 0
    /\ budget' = [budget EXCEPT !.cleanups = @ - 1]
    /\ cleaner' = [pc |-> "delFiles", ids |-> ids, outcome |-> "none", op |-> "files",
                   again |-> Repeats("files", ids)]
    /\ UNCHANGED <<apart, disk, catalog, now, currentScanJob, tracking, call, result, snap>>

\* A cleanupDeletedFiles that insists on every id being a tracked one.
BatchDeleteFilesStrict(fault) ==
    LET stop == fault \/ \E i \in Range(cleaner.ids) : i \notin Range(deletedFiles)
    IN  /\ cleaner.pc = "delFiles"
        /\ budget' = Spend(fault)
        /\ files' = IF stop THEN files ELSE batchDeleteFiles(cleaner.ids)
        /\ deletedFiles' = IF stop THEN deletedFiles
                           ELSE spliceAll(deletedFiles, cleaner.ids)
        /\ cleaner' = [cleaner EXCEPT !.pc = "idle",
                                      !.outcome = IF stop THEN "error" ELSE "ok",
                                      !.again = @ /\ Gone(cleaner.ids, files, deletedFiles)]
        /\ call' = Disturb(stop)
        /\ snap' = IF stop THEN snap ELSE NoSnap
        /\ UNCHANGED <<apart, disk, directories, scanJobs, nextId, now, currentScanJob,
                       emptyDirectories, result>>

\* storage.batchDeleteFiles returns, and the ids leave deletedFiles; or it
\* throws, and the error is thrown on.
BatchDeleteFilesReturns(fault) ==
    /\ cleaner.pc = "delFiles"
    /\ budget' = Spend(fault)
    /\ files' = IF fault THEN files ELSE batchDeleteFiles(cleaner.ids)
    /\ deletedFiles' = IF fault THEN deletedFiles ELSE spliceAll(deletedFiles, cleaner.ids)
    /\ cleaner' = [cleaner EXCEPT !.pc = "idle",
                                  !.outcome = IF fault THEN "error" ELSE "ok",
                                  !.again = @ /\ Gone(cleaner.ids, files, deletedFiles)]
    /\ call' = Disturb(fault)
    /\ snap' = IF fault THEN snap ELSE NoSnap
    /\ UNCHANGED <<apart, disk, directories, scanJobs, nextId, now, currentScanJob,
                   emptyDirectories, result>>

\* cleanupEmptyDirectories(directoryIds) awaits storage.batchDeleteDirectories.
CleanupEmptyDirectories(ids) ==
    /\ cleaner.pc = "idle"
    /\ budget.cleanups > 0
    /\ budget' = [budget EXCEPT !.cleanups = @ - 1]
    /\ cleaner' = [pc |-> "delDirs", ids |-> ids, outcome |-> "none", op |-> "dirs",
                   again |-> Repeats("dirs", ids)]
    /\ UNCHANGED <<apart, disk, catalog, now, currentScanJob, tracking, call, result, snap>>

\* A cleanupEmptyDirectories that splices before it awaits the batch-delete.
BatchDeleteDirectoriesSpliceFirst(fault) ==
    /\ cleaner.pc = "delDirs"
    /\ budget' = Spend(fault)
    /\ directories' = IF fault THEN directories ELSE batchDeleteDirectories(cleaner.ids)
    /\ emptyDirectories' = spliceAll(emptyDirectories, cleaner.ids)
    /\ cleaner' = [cleaner EXCEPT !.pc = "idle",
                                  !.outcome = IF fault THEN "error" ELSE "ok",
                                  !.again = @ /\ Gone(cleaner.ids, directories,
                                                      emptyDirectories)]
    /\ call' = Disturb(fault)
    /\ snap' = IF fault THEN snap ELSE NoSnap
    /\ UNCHANGED <<apart, disk, files, scanJobs, nextId, now, currentScanJob,
                   deletedFiles, result>>

\* storage.batchDeleteDirectories returns, and the ids leave emptyDirectories;
\* or it throws, and the error is thrown on.
BatchDeleteDirectoriesReturns(fault) ==
    /\ cleaner.pc = "delDirs"
    /\ budget' = Spend(fault)
    /\ directories' = IF fault THEN directories ELSE batchDeleteDirectories(cleaner.ids)
    /\ emptyDirectories' = IF fault THEN emptyDirectories
                           ELSE spliceAll(emptyDirectories, cleaner.ids)
    /\ cleaner' = [cleaner EXCEPT !.pc = "idle",
                                  !.outcome = IF fault THEN "error" ELSE "ok",
                                  !.again = @ /\ Gone(cleaner.ids, directories,
                                                      emptyDirectories)]
    /\ call' = Disturb(fault)
    /\ snap' = IF fault THEN snap ELSE NoSnap
    /\ UNCHANGED <<apart, disk, files, scanJobs, nextId, now, currentScanJob,
                   deletedFiles, result>>

\* ------------------------------------------------------------------ video progress
\* db.select().from(videoProgress).where(and(eq(userId), eq(fileId)))
getVideoProgress(userId, fileId) ==
    {r \in videoProgress : r.userId = userId /\ r.fileId = fileId}

\* db.update(videoProgress).set(updates).where(and(eq(userId), eq(fileId))):
\* currentTime stands for the fields set together (currentTime, duration,
\* isWatched, lastWatched).
updateVideoProgress(userId, fileId, currentTime) ==
    {IF r.userId = userId /\ r.fileId = fileId
        THEN [r EXCEPT !.currentTime = currentTime] ELSE r : r \in videoProgress}

\* db.insert(videoProgress).values(progress): a new id, no constraint beside
\* the primary key
insertVideoProgress(userId, fileId, currentTime) ==
    videoProgress \cup {[id |-> Cardinality(videoProgress) + 1, userId |-> userId,
                         fileId |-> fileId, currentTime |-> currentTime]}

\* How a saveVideoProgress call that is over leaves its request.
SaveDone(s, outcome) ==
    saver' = [saver EXCEPT ![s].pc = "done", ![s].outcome = outcome]

\* POST /api/video-progress/:fileId calls storage.saveVideoProgress, which
\* awaits getVideoProgress.
SaveVideoProgress(s, userId, fileId, currentTime) ==
    /\ saver[s].pc = "new"
    /\ saver' = [saver EXCEPT ![s] = [pc |-> "get", userId |-> userId,
                                      fileId |-> fileId, currentTime |-> currentTime,
                                      outcome |-> "none"]]
    /\ UNCHANGED <<disk, catalog, now, currentScanJob, tracking, call, result, cleaner,
                   budget, snap, videoProgress, lastSave, probe, listing>>

\* getVideoProgress returns: with a row, updateVideoProgress is awaited,
\* without one the insert.
GetVideoProgressReturns(s, fault) ==
    /\ saver[s].pc = "get"
    /\ budget' = Spend(fault)
    /\ IF fault THEN SaveDone(s, "error")
       ELSE IF getVideoProgress(saver[s].userId, saver[s].fileId) # {}
          THEN saver' = [saver EXCEPT ![s].pc = "update"]
          ELSE saver' = [saver EXCEPT ![s].pc = "insert"]
    /\ UNCHANGED <<disk, catalog, now, currentScanJob, tracking, call, result, cleaner,
                   snap, videoProgress, lastSave, probe, listing>>

\* The save has gone through: history.
Saved(s, fault) ==
    IF fault THEN lastSave
    ELSE [lastSave EXCEPT ![<<saver[s].userId, saver[s].fileId>>] = saver[s].currentTime]

\* updateVideoProgress returns.
UpdateVideoProgressReturns(s, fault) ==
    /\ saver[s].pc = "update"
    /\ budget' = Spend(fault)
    /\ videoProgress' = IF fault THEN videoProgress
                        ELSE updateVideoProgress(saver[s].userId, saver[s].fileId,
                                                 saver[s].currentTime)
    /\ lastSave' = Saved(s, fault)
    /\ SaveDone(s, IF fault THEN "error" ELSE "ok")
    /\ UNCHANGED <<disk, catalog, now, currentScanJob, tracking, call, result, cleaner,
                   snap, probe, listing>>

\* The insert returns.
InsertVideoProgressReturns(s, fault) ==
    /\ saver[s].pc = "insert"
    /\ budget' = Spend(fault)
    /\ videoProgress' = IF fault THEN videoProgress
                        ELSE insertVideoProgress(saver[s].userId, saver[s].fileId,
                                                 saver[s].currentTime)
    /\ lastSave' = Saved(s, fault)
    /\ SaveDone(s, IF fault THEN "error" ELSE "ok")
    /\ UNCHANGED <<disk, catalog, now, currentScanJob, tracking, call, result, cleaner,
                   snap, probe, listing>>

\* ------------------------------------------------------------------ deleted-files listing
\* if (fileIds.length === 0) return [];
\* db.select().from(files).where(and(...fileIds.map(id => eq(files.id, id)))):
\* the rows that satisfy every one of the equalities.
getDeletedFilesByIds(fileIds) ==
    IF Len(fileIds) = 0 THEN {}
    ELSE {r \in files : \A k \in 1..Len(fileIds) : r.id = fileIds[k]}

\* GET /api/cleanup/deleted-files: the route copies fileScanner.getDeletedFiles()
\* and awaits storage.getDeletedFilesByIds(deletedFileIds).
ListDeletedFiles ==
    /\ listing.pc # "query"
    /\ listing' = [pc |-> "query", ids |-> deletedFiles, answer |-> {}]
    /\ UNCHANGED <<watching, probe, disk, catalog, now, currentScanJob, tracking, call,
                   result, cleaner, budget, snap>>

\* storage.getDeletedFilesByIds returns and the rows are sent, or it throws
\* and the route answers 500.
GetDeletedFilesByIdsReturns(fault) ==
    /\ listing.pc = "query"
    /\ budget' = Spend(fault)
    /\ listing' = IF fault THEN [listing EXCEPT !.pc = "error"]
                  ELSE [listing EXCEPT !.pc = "sent",
                                       !.answer = getDeletedFilesByIds(listing.ids)]
    /\ UNCHANGED <<watching, probe, disk, catalog, now, currentScanJob, tracking, call,
                   result, cleaner, snap>>

\* ------------------------------------------------------------------ the system
Environment ==
    \/ \E f \in Range(FileUniverse), size \in 1..MaxSize, mtime \in 1..MaxMtime :
          EnvWriteFile(f, size, mtime)
    \/ \E p \in Range(AllPaths) : EnvRemove(p)
    \/ \E d \in Range(DirUniverse) : EnvMkdir(d)

ScanStep(p) ==
    \/ \E fault \in Faults : AccessReturns(p, fault)
    \/ \E fault \in Faults : CreateScanJobReturns(p, fault)
    \/ \E fault \in Faults : ReaddirReturns(p, fault)
    \/ \E fault \in Faults : GetDirectoryByPathReturns(p, fault)
    \/ \E fault \in Faults : CreateDirectoryReturns(p, fault)
    \/ \E fault \in Faults : GetFilesByPathsReturns(p, fault)
    \/ \E fault \in Faults : FindSubtitleFilesReturns(p, fault)
    \/ \E fault \in Faults : BatchCreateFilesReturns(p, fault)
    \/ \E fault \in Faults : BatchUpdateFilesReturns(p, fault)
    \/ \E fault \in Faults : UpdateDirectoryReturns(p, fault)
    \/ \E fault \in Faults : GetAllFilesReturns(p, fault)
    \/ \E fault \in Faults : AccessFileReturns(p, fault)
    \/ \E fault \in Faults : GetEmptyDirectoriesReturns(p, fault)
    \/ \E fault \in Faults : StatDirectoryReturns(p, fault)
    \/ \E fault \in Faults : ReaddirEmptyReturns(p, fault)
    \/ \E fault \in Faults : MarkCompletedReturns(p, fault)
    \/ \E fault \in Faults : MarkErrorReturns(p, fault)
    \/ \E bad \in 0..Len(AllPaths) : StatReturns(p, bad)

Cleanup ==
    \/ \E ids \in IdLists({r.id : r \in files} \cup Range(deletedFiles)
                             \cup Range(cleaner.ids)) :
          CleanupDeletedFiles(ids)
    \/ \E ids \in IdLists({d.id : d \in directories} \cup Range(emptyDirectories)
                             \cup Range(cleaner.ids)) :
          CleanupEmptyDirectories(ids)
    \/ \E fault \in Faults : BatchDeleteFilesReturns(fault)
    \/ \E fault \in Faults : BatchDeleteDirectoriesReturns(fault)

Next ==
    \/ StartScan
    \/ ScheduledScan
    \/ \E p \in Procs : ScanStep(p)

Spec == Init /\ [][Next]_vars

NextSeq ==
    \/ StartScan
    \/ ScanStep("api")
    \/ Cleanup
    \/ Environment

SpecSeq == InitSeq /\ [][NextSeq]_vars

\* One scan, and cleanup calls that can be made again.
InitRep ==
    InitWith(InitDisks, {EmptyCatalog, StaleCatalog},
             [scans |-> RepScans, changes |-> 0, cleanups |-> RepCleanups,
              faults |-> RepFaults])

NextRep ==
    \/ StartScan
    \/ ScanStep("api")
    \/ Cleanup

SpecRep == InitRep /\ [][NextRep]_vars

\* One caller on a disk nobody changes, whose root holds two subdirectories
\* and three files.
InitSib ==
    InitWith({SiblingDisk}, {EmptyCatalog},
             [scans |-> SibScans, changes |-> 0, cleanups |-> 0, faults |-> SibFaults])

NextSib ==
    \/ StartScan
    \/ ScanStep("api")

SpecSib == InitSib /\ [][NextSib]_vars

\* The progress routes alone: no scan, no cleanup, a disk nobody changes.
InitSave ==
    InitWith({FullDisk}, {EmptyCatalog},
             [scans |-> 0, changes |-> 0, cleanups |-> 0, faults |-> SaveFaults])

NextSave ==
    \/ \E s \in Savers, k \in ProgressKeys, t \in 1..MaxTime :
          SaveVideoProgress(s, k[1], k[2], t)
    \/ \E s \in Savers, fault \in Faults : GetVideoProgressReturns(s, fault)
    \/ \E s \in Savers, fault \in Faults : UpdateVideoProgressReturns(s, fault)
    \/ \E s \in Savers, fault \in Faults : InsertVideoProgressReturns(s, fault)

SpecSave == InitSave /\ [][NextSave]_vars

\* The extensions the classifier is asked about: every listed one, the same
\* in upper case, the subtitle extensions, one nobody lists, a lone dot and
\* the empty string.
ListedExts == videoExts \cup imageExts \cup audioExts \cup docExts
ProbeExts ==
    ListedExts \cup {toUpperCase(e) : e \in ListedExts} \cup subtitleExts
        \cup {<<".", "x", "y", "z">>, <<".">>, <<>>}

\* getFileType(extension) returns.
Classify ==
    /\ probe.pc = "asked"
    /\ probe' = [probe EXCEPT !.pc = "done", !.type = getFileType(probe.extension)]
    /\ UNCHANGED <<disk, directories, files, scanJobs, nextId, now, currentScanJob,
                   deletedFiles, emptyDirectories, call, result, cleaner, budget,
                   snap, watching, listing>>

\* One caller on a disk nobody changes, which holds M.MP4 beside m.mp4, and
\* the classifier asked about one extension.
InitType ==
    /\ InitState({MixedCaseDisk}, {EmptyCatalog, StaleCatalog},
                 [scans |-> TypeScans, changes |-> 0, cleanups |-> 0,
                  faults |-> TypeFaults])
    /\ \E e \in ProbeExts : probe = [pc |-> "asked", extension |-> e, type |-> ""]
    /\ listing = [pc |-> "none", ids |-> <<>>, answer |-> {}]

NextType ==
    \/ StartScan
    \/ ScanStep("api")
    \/ Classify

SpecType == InitType /\ [][NextType]_vars

\* One caller, files that disappear from the disk between passes, and the
\* deleted-files listing asked for at any time.
InitList ==
    InitWith({FullDisk}, {EmptyCatalog},
             [scans |-> ListScans, changes |-> ListChanges, cleanups |-> 0,
              faults |-> ListFaults])

NextList ==
    \/ StartScan
    \/ ScanStep("api")
    \/ \E p \in Range(AllPaths) : EnvRemove(p)
    \/ ListDeletedFiles
    \/ \E fault \in Faults : GetDeletedFilesByIdsReturns(fault)

SpecList == InitList /\ [][NextList]_vars

\* p's startScan has been entered and has not returned.
InFlight(p) == call[p].pc # "idle"

\* Every awaited I/O call returns or throws, so a call in flight takes its
\* next step: weak fairness of ScanStep(p).  ScanStep(p) is enabled exactly
\* when p's call is in flight (every awaited call can return without a
\* fault, and every step changes call[p]), so WF_vars(ScanStep(p)), which is
\* []<>~ENABLED <<ScanStep(p)>>_vars \/ []<><<ScanStep(p)>>_vars, is written
\* with InFlight(p) for the ENABLED.
FairSpec ==
    Spec /\ \A p \in Procs : ([]<>(~InFlight(p)) \/ []<><<ScanStep(p)>>_vars)

\* ------------------------------------------------------------------ claims
\* p's startScan is in its traversal or in one of its sweeps.
InPass(p) == call[p].pc \in {"scan", "getAll", "accessFile", "getEmpty", "statDir",
                              "readEmpty"}

\* C1: no two startScan calls execute traversal or sweeps at the same time (a
\* call made while another is in flight is rejected before it gets there).
C1_SingleFlight == \A p, q \in Procs : p # q => ~(InPass(p) /\ InPass(q))

\* C2: at most one ScanJob record has status "scanning".
C2_OneScanning == Cardinality({j \in scanJobs : j.status = "scanning"}) <= 1

\* C3: a scheduler firing while the manual scan is in flight skips: the cron
\* caller does not enter startScan.
C3_SchedulerSkips ==
    [][(InFlight("api") /\ ~InFlight("cron")) => ~InFlight("cron")']_vars

\* C4: a startScan that has set the guard returns in the end, and the guard
\* never holds the job of a call that has returned, so such a call never
\* makes a later one fail with AlreadyInProgress.
C4_GuardReleased ==
    /\ \A p \in Procs : (call[p].job # NULL) ~> (call[p].pc = "idle")
    /\ [](GuardSet => \E p \in Procs : call[p].job = currentScanJob)

\* C4 witness: a scan has ended in error (its status update threw), the
\* guard is clear and a later startScan has got past the guard test.
C4_Witness ==
    /\ \E j \in scanJobs : j.status = "error"
    /\ ~GuardSet
    /\ \A p \in Procs : call[p].job = NULL
    /\ \E p \in Procs : call[p].pc = "access"

\* C5: a startScan whose root is not accessible ends with
\* DirectoryNotAccessible, and that step changes no ScanJob, Directory or File
\* record, not the guard and neither detection-result list; the call never
\* had a ScanJob.
C5_NotAccessible ==
    [][\A p \in Procs :
        /\ (call[p].pc = "access" /\ call'[p].pc # "access" /\ ~Exists(RootPath))
              => result'[p] = "DirectoryNotAccessible"
        /\ (call[p].pc = "access" /\ result'[p] = "DirectoryNotAccessible")
              => /\ call'[p].pc = "idle"
                 /\ call[p].job = NULL
                 /\ UNCHANGED <<scanJobs, directories, files, nextId, currentScanJob,
                                deletedFiles, emptyDirectories>>]_vars

\* C5 witness: a call has ended with DirectoryNotAccessible on a missing root.
C5_Witness ==
    \E p \in Procs : result[p] = "DirectoryNotAccessible" /\ ~Exists(RootPath)

\* C6: a ScanJob is created scanning with progress 0, leaves scanning at most
\* once, for completed (progress 100, completedAt set) or error (completedAt
\* and message set), never changes afterwards and is never deleted.
C6_JobStateMachine ==
    /\ [](\A j \in scanJobs :
            /\ j.status \in {"scanning", "completed", "error"}
            /\ (j.status = "scanning") => (j.progress = 0 /\ j.completedAt = NULL)
            /\ (j.status = "completed") => (j.progress = 100 /\ j.completedAt # NULL)
            /\ (j.status = "error") => (j.completedAt # NULL /\ j.error # ""))
    /\ [][(\A j \in scanJobs :
              \E k \in scanJobs' : k.id = j.id /\ (j.status # "scanning" => k = j))
          /\ (\A k \in scanJobs' :
                (\A j \in scanJobs : j.id # k.id)
                   => (k.status = "scanning" /\ k.progress = 0))]_vars

\* C6 witness: one job has ended in error and another has been created.
C6_Witness ==
    \E j, k \in scanJobs : j.status = "error" /\ k.id # j.id

\* The step with which p's pass ends: the status update has returned or
\* thrown and startScan returns or throws.
PassEnds(p) == call[p].pc \in {"markCompleted", "markError"} /\ call'[p].pc = "idle"

\* C7: when a scan during which no I/O call has thrown completes, every file
\* on disk has exactly one File record with its path and every directory on
\* disk, the root included, exactly one Directory record with its path.
C7_EveryEntryCatalogued ==
    (snap.valid /\ snap.clean) =>
        /\ \A i \in 1..Len(FileUniverse) :
              disk[FileUniverse[i]].kind = "file"
                 => Cardinality({r \in snap.files : r.path = FileUniverse[i]}) = 1
        /\ \A i \in 1..Len(DirUniverse) :
              disk[DirUniverse[i]].kind = "dir"
                 => Cardinality({d \in snap.directories : d.path = DirUniverse[i]}) = 1

\* C7 witness: a scan without a failure has completed on the full tree and
\* left three File and two Directory records.
C7_Witness ==
    /\ snap.valid /\ snap.clean
    /\ disk = FullDisk
    /\ Cardinality(snap.files) = 3
    /\ Cardinality(snap.directories) = 2

\* No two File records and no two Directory records share a path.
NoSharedPath ==
    /\ \A r1, r2 \in files : r1.path = r2.path => r1 = r2
    /\ \A d1, d2 \in directories : d1.path = d2.path => d1 = d2

\* The pass of p that ends with this step leaves the File and Directory
\* records as the pass before it left them, and has created none.
SecondPassChangesNothing ==
    /\ files' = snap.files
    /\ directories' = snap.directories
    /\ <<nextId'.dir, nextId'.file>> = snap.next

C9_MtimeGated ==
    \A p \in Procs : \A i \in 1..Len(call[p].stack) :
        LET f == call[p].stack[i]
        IN  \A k \in 1..Len(f.toUpdate) : \A e \in f.existing :
                e.id = f.toUpdate[k].id => e.modifiedAt # f.toUpdate[k].data.modifiedAt

\* C10: when a pass during which no I/O call has thrown ends, the id of every
\* File record whose path is not on disk is in getDeletedFiles().
C10_DeletedDetected ==
    [][\A p \in Procs :
        (PassEnds(p) /\ Undisturbed(p))
           => \A r \in files : ~Exists(r.path) => r.id \in Range(deletedFiles')]_vars

\* The on-disk check of the empty-directory sweep: the path is missing, is
\* no directory, or is a directory without entries.
EmptyOnDisk(path) ==
    \/ ~Exists(path)
    \/ disk[path].kind # "dir"
    \/ Len(Entries(path)) = 0

\* A Directory record without File records and without child Directory records.
LeafRecord(d) ==
    /\ \A r \in files : r.directoryId # d.id
    /\ \A c \in directories : c.parentId # d.id

\* C11: when a pass during which no I/O call has thrown ends, the id of every
\* Directory record without File records and without child records whose
\* path is missing, no directory or an empty directory on disk is in
\* getEmptyDirectories().
C11_EmptyDetected ==
    [][\A p \in Procs :
        (PassEnds(p) /\ Undisturbed(p))
           => \A d \in directories :
                 (LeafRecord(d) /\ EmptyOnDisk(d.path)) => d.id \in Range(emptyDirectories')]_vars

\* The regular files directly in a directory on disk, and the sum of their sizes.
DirectFiles(path) ==
    {f \in Range(AllPaths) : dirname(f) = path /\ disk[f].kind = "file"}

RECURSIVE SizeSum(_)
SizeSum(fs) ==
    IF fs = {} THEN 0
    ELSE LET f == CHOOSE x \in fs : TRUE IN disk[f].size + SizeSum(fs \ {f})

\* C12: after a pass during which no I/O call has thrown, the record of every
\* directory on disk holds as fileCount the number of regular files directly
\* in the directory and as totalSize the sum of their sizes.
C12_StatsFromDisk ==
    (snap.valid /\ snap.clean) =>
        \A d \in snap.directories :
            disk[d.path].kind = "dir"
               => /\ d.fileCount = Cardinality(DirectFiles(d.path))
                  /\ d.totalSize = SizeSum(DirectFiles(d.path))

\* A cleanup call returns without its batch-delete having thrown.
CleanupReturns ==
    /\ cleaner.pc # "idle"
    /\ cleaner'.pc = "idle"
    /\ budget'.faults = budget.faults

\* C13: a cleanupDeletedFiles or cleanupEmptyDirectories call whose ids are
\* already out of the catalog and out of the tracking list (as they are when
\* the call repeats one that went through) raises no error and leaves the
\* catalog and both tracking lists as they were.
C13_CleanupIdempotent ==
    [][(/\ CleanupReturns
        /\ \/ cleaner.op = "files" /\ Gone(cleaner.ids, files, deletedFiles)
           \/ cleaner.op = "dirs" /\ Gone(cleaner.ids, directories, emptyDirectories))
          => /\ cleaner'.outcome = "ok"
             /\ UNCHANGED <<directories, files, deletedFiles, emptyDirectories>>]_vars

\* After a scan, a cleanupDeletedFiles call that repeats the one before it
\* has returned normally, having found its ids gone.
C13_Witness ==
    /\ cleaner.pc = "idle"
    /\ cleaner.again
    /\ cleaner.outcome = "ok"
    /\ cleaner.op = "files"
    /\ budget.scans = 0

\* The batch-delete a cleanup call awaits throws.
BatchDeleteThrows ==
    /\ cleaner.pc # "idle"
    /\ cleaner'.pc = "idle"
    /\ budget'.faults < budget.faults

\* C14: when the batch-delete awaited by cleanupDeletedFiles or by
\* cleanupEmptyDirectories throws, the caller gets the error, and deletedFiles
\* and emptyDirectories (and the catalog) are as before the call.
C14_DeleteFailurePropagates ==
    [][BatchDeleteThrows
          => /\ cleaner'.outcome = "error"
             /\ UNCHANGED <<directories, files, deletedFiles, emptyDirectories>>]_vars

\* A cleanupEmptyDirectories call on a tracked id has failed, and the id is
\* tracked still.
C14_Witness ==
    /\ cleaner.pc = "idle"
    /\ cleaner.op = "dirs"
    /\ cleaner.outcome = "error"
    /\ \E i \in Range(cleaner.ids) : i \in Range(emptyDirectories)

\* The File records the existence check of a sweep fails for, on a disk that
\* nobody changes and with no call throwing: those whose path is not on disk.
MissingFiles == {r \in files : ~Exists(r.path)}

\* C15: when a pass during which no I/O call has thrown ends, getDeletedFiles()
\* holds exactly the ids of the File records whose path failed fs.access in
\* the sweep of that pass: no id more and no id less.
C15_LatestSweepOnly ==
    [][\A p \in Procs :
        (PassEnds(p) /\ Undisturbed(p))
           => Range(deletedFiles') = {r.id : r \in MissingFiles}]_vars

\* The ids of the rows of a table.
Ids(table) == {r.id : r \in table}

\* C16: a step that takes the id of a File or Directory record out of the
\* catalog is the return of a cleanup call; no step of startScan is one, so
\* during a scan the set of record ids only grows.
C16_ScanNeverDeletes ==
    [][(~(Ids(files) \subseteq Ids(files')) \/ ~(Ids(directories) \subseteq Ids(directories')))
          => cleaner.pc # "idle" /\ cleaner'.pc = "idle"]_vars

\* A second pass has run over a catalog with the record of a file that has
\* left the disk: the sweep has reported the record, and the record is there.
C16_Witness ==
    /\ snap.valid
    /\ Cardinality({j \in scanJobs : j.status = "completed"}) = 2
    /\ \E r \in files : ~Exists(r.path) /\ r.id \in Range(deletedFiles)

\* C17: every File record names the id of a Directory record as its
\* directoryId, and every Directory record with a parentId names the id of a
\* Directory record.
C17_ReferentialIntegrity ==
    /\ \A r \in files : r.directoryId \in Ids(directories)
    /\ \A d \in directories : d.parentId # NULL => d.parentId \in Ids(directories)

\* The directory at path has its record below the record of the root, every
\* file directly in it has its File record, and the statistics are the disk's.
Reconciled(path, files1, directories1) ==
    \E d \in directories1 :
        /\ d.path = path
        /\ path # RootPath => \E r \in directories1 : r.path = RootPath /\ d.parentId = r.id
        /\ \A f \in DirectFiles(path) :
               \E r \in files1 : r.path = f /\ r.directoryId = d.id
        /\ d.fileCount = Cardinality(DirectFiles(path))
        /\ d.totalSize = SizeSum(DirectFiles(path))

\* The subdirectories of the root, and the root for its own file batch.
Units == {j \in 1..Len(AllPaths) :
            /\ disk[AllPaths[j]].kind = "dir"
            /\ AllPaths[j] = RootPath \/ dirname(AllPaths[j]) = RootPath}

\* The names batchProcessFiles goes on with after its fs.stat calls.
StatOk(c) ==
    IF c.pc = "scan" /\ Top(c.stack).at = "getFiles"
       THEN {Top(c.stack).infos[j].name : j \in 1..Len(Top(c.stack).infos)}
       ELSE {}

\* C18: a failure stays where it strikes.  When the first pass over an empty
\* catalog ends with the record of the root in place (so the root was listed),
\* no more subdirectories and file batches of the root are left unreconciled
\* than I/O calls have thrown: the siblings of a failed subdirectory and the
\* root's own file batch are done.  And when the fs.stat of one file entry
\* throws, batchProcessFiles goes on with exactly the other file entries of
\* the directory; only entries it goes on with are created or updated.
C18_FailureContained ==
    [][\A p \in Procs :
        /\ (/\ PassEnds(p)
            /\ Cardinality(scanJobs) = 1
            /\ \E r \in directories : r.path = RootPath)
              => Cardinality({j \in Units : ~Reconciled(AllPaths[j], files, directories)})
                     <= SibFaults - budget'.faults
        /\ (Scanning(p, "stat") /\ budget'.faults < budget.faults)
              => LET fe == fileEntries(Top(call[p].stack).entries)
                 IN  \E bad \in 1..Len(fe) :
                        StatOk(call'[p]) = {fe[j].name : j \in 1..Len(fe) \ {bad}}
        /\ \A i \in 1..Len(call'[p].stack) :
              LET f == call'[p].stack[i]
                  went == {f.infos[j].fullPath : j \in 1..Len(f.infos)}
              IN  /\ \A j \in 1..Len(f.toCreate) : f.toCreate[j].path \in went
                  /\ \A j \in 1..Len(f.toUpdate) : f.toUpdate[j].data.path \in went]_vars

\* A call has thrown inside subdirectory a, which is left unreconciled, and
\* the fs.stat of m.mp4 has thrown: the sibling b has its record, m.en.srt
\* has its File record below the root and m.mp4 has none.
C18_Witness ==
    /\ snap.valid
    /\ Cardinality(scanJobs) = 1
    /\ budget.faults = 0
    /\ ~Reconciled(<<n_d, n_a>>, files, directories)
    /\ Reconciled(SiblingPath, files, directories)
    /\ \E r \in files, d \in directories :
          r.path = <<n_d, n_m_en_srt>> /\ d.path = RootPath /\ r.directoryId = d.id
    /\ \A r \in files : r.path # <<n_d, n_m_mp4>>

\* C19: a pass in which the root could not be listed or given its record (it
\* ends without a Directory record of the root, which is a directory on disk)
\* or in which storage.getAllFiles() threw inside the deleted-file sweep does
\* not leave its ScanJob in status completed.
C19_FailureMarksError ==
    [][\A p \in Procs :
        (/\ PassEnds(p)
         /\ \/ ~call[p].listed
            \/ disk[RootPath].kind = "dir" /\ \A d \in directories : d.path # RootPath)
           => \A j \in scanJobs' : j.id = call[p].job => j.status # "completed"]_vars

\* The names of the entries of the directory of video, in listing order,
\* whose extension is a subtitle extension and whose base name starts with
\* the base name of video.
SubtitleEntries(video) ==
    LET listed == Entries(dirname(video))
        names == [j \in 1..Len(listed) |-> listed[j].name]
    IN  SelectSeq(names, LAMBDA n :
            /\ toLowerCase(extname(n)) \in subtitleExts
            /\ LET base == parseName(<<n>>)
               IN  \E k \in 0..Len(base) : SubSeq(base, 1, k) = parseName(video))

\* A pass during which no I/O call has thrown ends; V is the record of a
\* video file that is on disk (which the pass has found dirty).
AfterPass(p, V) ==
    /\ PassEnds(p)
    /\ Undisturbed(p)
    /\ V.type = "video"
    /\ disk[V.path].kind = "file"

FlagAgrees(r) == r.hasSubtitles <=> r.subtitlePaths # <<>>

\* C21: in every File record, and in every InsertFile queued for
\* batchCreateFiles or batchUpdateFiles, hasSubtitles is true exactly when
\* subtitlePaths is not empty.
C21_FlagIffPaths ==
    /\ \A r \in files : FlagAgrees(r)
    /\ \A p \in Procs : \A i \in 1..Len(call[p].stack) :
          LET f == call[p].stack[i]
          IN  /\ \A j \in 1..Len(f.toCreate) : FlagAgrees(f.toCreate[j])
              /\ \A j \in 1..Len(f.toUpdate) : FlagAgrees(f.toUpdate[j].data)

\* Two passes have completed: the record of m.mp4, created by the first and
\* updated by the second, has the flag and a subtitle path; the record of
\* o.srt has neither.
C21_Witness ==
    /\ snap.valid
    /\ Cardinality({j \in scanJobs : j.status = "completed"}) = 2
    /\ \E r \in files :
          r.path = <<n_d, n_m_mp4>> /\ r.hasSubtitles /\ r.subtitlePaths # <<>>
    /\ \E r \in files :
          r.path = OtherSubtitle /\ ~r.hasSubtitles /\ r.subtitlePaths = <<>>

\* The root is a directory without entries.
EmptyRoot == disk[RootPath].kind = "dir" /\ Entries(RootPath) = <<>>

\* What the scan of a root without entries leaves of an empty catalog: one
\* Directory record, of the root, with fileCount 0 and no parent, no File
\* record, and the ScanJob completed with progress 100.
EmptyRootOutcome ==
    /\ Cardinality(directories') = 1
    /\ \A d \in directories' :
          /\ d.path = RootPath
          /\ d.fileCount = 0
          /\ d.parentId = NULL
    /\ files' = {}
    /\ \A j \in scanJobs' : j.status = "completed" /\ j.progress = 100

C23_OneRowPerPair ==
    \A k \in ProgressKeys :
        LET rows == getVideoProgress(k[1], k[2])
        IN  /\ Cardinality(rows) <= 1
            /\ lastSave[k] # NULL
                  => \E r \in rows : r.currentTime = lastSave[k]

FileTypes == {"video", "image", "audio", "document", "other"}

\* What the specification expects of the classifier on one extension.
Classified(extension, type) ==
    /\ type \in FileTypes
    /\ type = "video" <=>
          extension \in { <<".", "m", "p", "4">>, <<".", "a", "v", "i">>,
                          <<".", "m", "k", "v">>, <<".", "m", "o", "v">>,
                          <<".", "w", "m", "v">>, <<".", "f", "l", "v">>,
                          <<".", "w", "e", "b", "m">>, <<".", "m", "4", "v">> }
    /\ type = "image" <=>
          extension \in { <<".", "j", "p", "g">>, <<".", "j", "p", "e", "g">>,
                          <<".", "p", "n", "g">>, <<".", "g", "i", "f">>,
                          <<".", "b", "m", "p">>, <<".", "w", "e", "b", "p">>,
                          <<".", "t", "i", "f", "f">>, <<".", "s", "v", "g">> }
    /\ type = "audio" <=>
          extension \in { <<".", "m", "p", "3">>, <<".", "w", "a", "v">>,
                          <<".", "f", "l", "a", "c">>, <<".", "a", "a", "c">>,
                          <<".", "o", "g", "g">>, <<".", "w", "m", "a">>,
                          <<".", "m", "4", "a">> }
    /\ type = "document" <=>
          extension \in { <<".", "p", "d", "f">>, <<".", "d", "o", "c">>,
                          <<".", "d", "o", "c", "x">>, <<".", "t", "x", "t">>,
                          <<".", "r", "t", "f">>, <<".", "x", "l", "s">>,
                          <<".", "x", "l", "s", "x">>, <<".", "p", "p", "t">>,
                          <<".", "p", "p", "t", "x">> }

\* The extension of a file name in lower case, letter by letter.
LowerExtension(name) ==
    LET dots == {i \in 2..Len(name) : name[i] = "."}
        from == IF dots = {} THEN Len(name) + 1
                ELSE CHOOSE i \in dots : \A j \in dots : j <= i
    IN  [i \in 1..(Len(name) + 1 - from) |->
            LET c == name[from + i - 1]
            IN  IF \E k \in 1..26 : UpperLetters[k] = c
                THEN LowerLetters[CHOOSE k \in 1..26 : UpperLetters[k] = c]
                ELSE c]

\* C24: the classifier answers every extension with one of the five types,
\* a listed extension with the type of its list and every other one (the
\* empty one, an upper-case one) with other; and the type of every File
\* record is the classifier's answer on the lower-cased extension of the
\* record's name.
C24_Classifier ==
    /\ probe.pc = "done" => Classified(probe.extension, probe.type)
    /\ \A r \in files :
          /\ r.extension = LowerExtension(r.name)
          /\ Classified(LowerExtension(r.name), r.type)

\* The classifier has answered, and a pass has written the records of
\* M.MP4 and m.mp4 (both video), of N.TXT and of m.en.srt.
C24_Witness ==
    /\ probe.pc = "done"
    /\ snap.valid
    /\ \E r \in files : r.path = UpperVideo /\ r.type = "video"
    /\ \E r \in files : r.path = <<n_d, n_m_mp4>> /\ r.type = "video"
    /\ \E r \in files : r.name = n_N_TXT /\ r.type = "document"
    /\ \E r \in files : r.name = n_m_en_srt /\ r.type = "other"

\* The ScanJob created last.
NewestJob == {j \in scanJobs : \A k \in scanJobs : k.id <= j.id}

\* C25: while a scan that has created its ScanJob is in flight,
\* getCurrentScanJob returns that job with status scanning; while none is,
\* it returns the job created last, with status completed or error.
C25_CurrentScanJob ==
    /\ \A p \in Procs :
          call[p].job # NULL
             => \A j \in getCurrentScanJob : j.id = call[p].job /\ j.status = "scanning"
    /\ (\A p \in Procs : call[p].job = NULL)
          => /\ getCurrentScanJob = NewestJob
             /\ \A j \in getCurrentScanJob : j.status \in {"completed", "error"}

\* The answer of POST /api/scan/start to the latest request.
Answer == ScanStartAnswer(result["api"])

\* The route's startScan call ends in this step.
Answered ==
    \/ StartScan /\ GuardSet
    \/ call["api"].pc # "idle" /\ call'["api"].pc = "idle"

\* C26: the route answers 409 exactly when startScan found the guard set,
\* 500 when fs.access failed and when createScanJob or the final
\* updateScanJob threw, and 200 only when the completed update has returned.
C26_RouteAnswers ==
    [][Answered =>
         /\ Answer' \in {200, 409, 500}
         /\ Answer' = 409 <=> (StartScan /\ GuardSet)
         /\ call["api"].pc \in {"access", "createJob", "markError"} => Answer' = 500
         /\ Answer' = 200 <=>
               /\ call["api"].pc = "markCompleted"
               /\ \E j \in scanJobs' : j.id = call["api"].job /\ j.status = "completed"]_vars

\* The route has answered 409 to a request made while the cron scan was in
\* flight.
C26_Witness ==
    /\ result["api"] = "AlreadyInProgress"
    /\ Answer = 409
    /\ call["cron"].pc # "idle"

\* The steps of startScan, numbered in the order of its text.
Phase(pc) ==
    CASE pc = "idle" -> 0
      [] pc = "access" -> 1
      [] pc = "createJob" -> 2
      [] pc = "scan" -> 3
      [] pc \in {"getAll", "accessFile"} -> 4
      [] pc \in {"getEmpty", "statDir", "readEmpty"} -> 5
      [] pc = "markCompleted" -> 6
      [] pc = "markError" -> 7

\* C27: in every step of a startScan call: Directory and File records are
\* written only during the traversal, which starts in the step that creates
\* the call's ScanJob; the deleted-file sweep starts in the step in which
\* the scanDirectory of the root returns; the empty-directory sweep starts in
\* the last step of the deleted-file sweep; the completed update is awaited
\* from the last step of the empty-directory sweep on, and the ScanJob
\* becomes completed only when it returns.
C27_StepOrder ==
    [][\A p \in Procs :
        call'[p] # call[p] =>
           LET a == Phase(call[p].pc)
               b == Phase(call'[p].pc)
           IN  /\ (directories' # directories \/ files' # files)
                     => a = 3 /\ \E j \in scanJobs : j.id = call[p].job
               /\ (b = 3 /\ a # 3)
                     => /\ a = 2
                        /\ \E j \in scanJobs' \ scanJobs : j.id = call'[p].job
               /\ (b = 4 /\ a # 4)
                     => a = 3 /\ Len(call[p].stack) = 1 /\ call'[p].stack = <<>>
               /\ (b = 5 /\ a # 5)
                     => a = 4 /\ (call[p].pc = "getAll" \/ Len(call[p].todo) = 1)
               /\ (b = 6 /\ a # 6)
                     => a = 5 /\ (call[p].pc = "getEmpty" \/ Len(call[p].todo) = 1)
               /\ (\E j \in scanJobs' \ scanJobs :
                       j.id = call[p].job /\ j.status = "completed")
                     => a = 6]_vars

\* A startScan call has gone through all its steps: its ScanJob is
\* completed, Directory and File records are written and the deleted-file
\* sweep has looked at them.
C27_Witness ==
    /\ result["api"] = "ok"
    /\ \E j \in scanJobs : j.status = "completed"
    /\ Cardinality(directories) = 2
    /\ Cardinality(files) = 3
    /\ snap.valid /\ snap.clean

\* The awaits of an activation that come before its Directory record is at
\* hand.
Unresolved == {"readdir", "getDir", "createDir"}

\* No entry of f from index i on is a subdirectory.
NoDirectoryFrom(f, i) == \A j \in i..Len(f.entries) : f.entries[j].kind # "dir"

\* C28: in every step of a traversal: (1) a subdirectory is entered only by
\* an activation that has the id of its Directory record (an id the table
\* has issued), it is the next subdirectory
\* in listing order, and it is handed the id of that record; (2) while a
\* subdirectory is being scanned every enclosing activation waits for it;
\* (3) an activation is in its file batch, and File records are written,
\* only with its Directory record at hand and none of its subdirectories
\* left; (4) a Directory record created for a subdirectory carries the id
\* of the enclosing activation's record as parentId, and the one of the
\* root carries null.
C28_TraversalOrder ==
    [][\A p \in Procs :
        (call[p].pc = "scan" /\ call'[p].stack # call[p].stack) =>
           LET st == call[p].stack
               st1 == call'[p].stack
               f == Top(st)
           IN  /\ Len(st1) > 0 /\ Top(st1).at = "readdir"
                     => /\ Len(st1) > 1
                        /\ LET o == st[Len(st1) - 1]
                                e == st1[Len(st1) - 1]
                                j == e.i - 1
                            IN  /\ e.dirId \in 1..(nextId.dir' - 1)
                                /\ j >= o.i
                                /\ e.entries[j].kind = "dir"
                                /\ \A x \in o.i..(j - 1) : e.entries[x].kind # "dir"
                                /\ Top(st1).dirPath = Append(e.dirPath, e.entries[j].name)
                                /\ Top(st1).parentId = e.dirId
               /\ \A x \in 1..(Len(st1) - 1) :
                     st1[x].at = "sub" /\ st1[x].dirId # NULL
               /\ (Len(st1) > 0 /\ Top(st1).at \notin Unresolved \cup {"sub"})
                     => Top(st1).dirId # NULL /\ NoDirectoryFrom(Top(st1), Top(st1).i)
               /\ files' # files
                     => /\ f.dirId \in 1..(nextId.dir - 1)
                        /\ NoDirectoryFrom(f, f.i)
                        /\ \A r \in files' \ files : r.directoryId = f.dirId
               /\ \A d \in directories' :
                     d.id \notin {x.id : x \in directories}
                        => /\ d.path = f.dirPath
                           /\ IF Len(st) = 1 THEN d.parentId = NULL
                              ELSE d.parentId = st[Len(st) - 1].dirId]_vars

\* A pass has gone through the root and its two subdirectories: both have
\* their record below the root's, m.mp4 is recorded in the root and N.TXT in
\* subdirectory a.
C28_Witness ==
    /\ snap.valid /\ snap.clean
    /\ \E r \in directories :
          /\ r.path = RootPath /\ r.parentId = NULL
          /\ \E a \in directories :
                /\ a.path = <<n_d, n_a>> /\ a.parentId = r.id
                /\ \E x \in files : x.name = n_N_TXT /\ x.directoryId = a.id
          /\ \E b \in directories : b.path = SiblingPath /\ b.parentId = r.id
          /\ \E x \in files : x.name = n_m_mp4 /\ x.directoryId = r.id

\* The paths of a list of InsertFiles, and of a list of updates.
CreatePaths(f) == {f.toCreate[j].path : j \in 1..Len(f.toCreate)}
UpdatePaths(f) == {f.toUpdate[j].data.path : j \in 1..Len(f.toUpdate)}

\* The entries of f that the lookup found no record for, or a record with
\* another modification time object.
DirtyPaths(f) ==
    {f.infos[j].fullPath : j \in {x \in 1..Len(f.infos) :
        needsUpdate({e \in f.existing : e.path = f.infos[x].fullPath}, f.infos[x])}}

\* C29: in every step of a traversal that leaves an activation with its
\* loop over fileInfos done: the create list and the update list hold each
\* path once, share none and together hold exactly the dirty entries; an
\* update names the record found for its path; no File record has a path
\* of the create list when batchCreateFiles is called; and batchCreateFiles
\* and batchUpdateFiles are each called at most once.
C29_Partition ==
    [][\A p \in Procs :
        (call[p].pc = "scan" /\ call'[p].pc = "scan"
            /\ call'[p].stack # call[p].stack) =>
           LET f == Top(call[p].stack)
               g == Top(call'[p].stack)
               same == Len(call'[p].stack) = Len(call[p].stack) /\ g.dirPath = f.dirPath
           IN  /\ g.at \in {"create", "update", "updDir"}
                     => /\ CreatePaths(g) \cap UpdatePaths(g) = {}
                        /\ CreatePaths(g) \cup UpdatePaths(g) = DirtyPaths(g)
                        /\ Cardinality(CreatePaths(g)) = Len(g.toCreate)
                        /\ Cardinality(UpdatePaths(g)) = Len(g.toUpdate)
                        /\ \A j \in 1..Len(g.toUpdate) :
                              \E e \in g.existing :
                                 e.id = g.toUpdate[j].id /\ e.path = g.toUpdate[j].data.path
               /\ (g.at = "create" /\ ~(same /\ f.at = "create"))
                     => \A r \in files' : r.path \notin CreatePaths(g)
               /\ (same /\ f.at = "create") => g.at \in {"update", "updDir"}
               /\ (same /\ f.at = "update") => g.at = "updDir"
               /\ (same /\ f.at = "updDir") => g.at \notin {"create", "update"}]_vars

\* C30: a step of a scan leaves every Directory record in the table, with
\* its name, path and parentId as they were; fileCount and totalSize are
\* the fields it may change.
C30_DirectoryFrame ==
    [][\A p \in Procs :
        (InFlight(p) /\ (call'[p].pc # call[p].pc \/ call'[p].stack # call[p].stack))
           => \A d \in directories :
                 \E e \in directories' :
                    /\ e.id = d.id
                    /\ e.name = d.name
                    /\ e.path = d.path
                    /\ e.parentId = d.parentId]_vars

\* A pass has found the record an earlier run left of the root (the run
\* whose File record of m.mp4 has id 1) and has changed its fileCount from 1
\* to 2; the record it created for subdirectory a has had its statistics
\* updated too and is still below the root.
C30_Witness ==
    /\ \E x \in files : x.id = 1 /\ x.path = <<n_d, n_m_mp4>>
    /\ \E d \in directories :
          /\ d.id = 1 /\ d.name = n_d /\ d.path = RootPath /\ d.parentId = NULL
          /\ d.fileCount = 2
          /\ \E a \in directories :
                a.path = <<n_d, n_a>> /\ a.parentId = d.id /\ a.fileCount = 1

\* The ids batchUpdateFiles is called with, when that is what activation g
\* awaits.
UpdateIds(g) ==
    IF g.at = "update" THEN {g.toUpdate[j].id : j \in 1..Len(g.toUpdate)} ELSE {}

\* C31: a step of a scan that changes the files table leaves every File
\* record that was there in the table with its id, thumbnailPath,
\* duration, width and height; a record that is not video-type keeps its
\* hasSubtitles and subtitlePaths, and a record the pass did not find dirty
\* (it is not named in the batchUpdateFiles call) is left as it is.
C31_FileFrame ==
    [][\A p \in Procs :
        (call[p].pc = "scan" /\ call'[p].stack # call[p].stack) =>
           \A r \in files :
              \E e \in files' :
                 /\ e.id = r.id
                 /\ e.thumbnailPath = r.thumbnailPath
                 /\ e.duration = r.duration
                 /\ e.width = r.width
                 /\ e.height = r.height
                 /\ r.type # "video"
                       => /\ e.hasSubtitles = r.hasSubtitles
                          /\ e.subtitlePaths = r.subtitlePaths
                 /\ r.id \notin UpdateIds(Top(call[p].stack)) => e = r]_vars

\* Two passes have completed over the catalog an earlier run left: the
\* record of m.mp4 has been updated (it has its subtitle now) and still has
\* its thumbnail and metadata, and the record of m.en.srt, created by the
\* first pass and updated by the second, has no subtitle data.
C31_Witness ==
    /\ Cardinality({j \in scanJobs : j.status = "completed"}) = 2
    /\ \E r \in files :
          /\ r.id = 1 /\ r.path = <<n_d, n_m_mp4>>
          /\ r.hasSubtitles
          /\ r.thumbnailPath = 1 /\ r.duration = 1 /\ r.width = 1 /\ r.height = 1
    /\ \E r \in files :
          r.name = n_m_en_srt /\ ~r.hasSubtitles /\ r.subtitlePaths = <<>>

\* C32: the step in which startScan throws "Scan already in progress"
\* leaves the ScanJob table, the guard, the Directory and File tables, both
\* tracking lists and the activation of the scan in flight as they were.
C32_RejectionChangesNothing ==
    [][(GuardSet /\ StartScan)
         => /\ result'["api"] = "AlreadyInProgress"
            /\ UNCHANGED <<scanJobs, currentScanJob, directories, files, nextId,
                           deletedFiles, emptyDirectories, disk, snap>>
            /\ call'["cron"] = call["cron"]
            /\ result'["cron"] = result["cron"]]_vars

\* The route's call was rejected while the cron scan was in flight, and
\* that scan has since ended with its ScanJob completed.
C32_Witness ==
    /\ result["api"] = "AlreadyInProgress"
    /\ result["cron"] = "ok"
    /\ Cardinality(scanJobs) = 1
    /\ \A j \in scanJobs : j.status = "completed" /\ j.progress = 100
    /\ currentScanJob = NULL

\* C33: a step of a cleanup call removes a File record only when its id is
\* in deletedFiles, and a Directory record only when its id is in
\* emptyDirectories.
C33_CleanupOnlyTracked ==
    [][/\ cleaner.pc = "delFiles"
          => \A r \in files : r \notin files' => r.id \in Range(deletedFiles)
       /\ cleaner.pc = "delDirs"
          => \A d \in directories :
                d \notin directories' => d.id \in Range(emptyDirectories)]_vars

\* C34: every id getDeletedFiles() returns is the id of a File record in
\* the table, and every id getEmptyDirectories() returns the id of a
\* Directory record in the table.
C34_TrackedIdsExist ==
    /\ \A i \in Range(deletedFiles) : \E r \in files : r.id = i
    /\ \A i \in Range(emptyDirectories) : \E d \in directories : d.id = i

\* No element occurs twice in the list.
NoDuplicates(list) ==
    \A i, j \in 1..Len(list) : list[i] = list[j] => i = j

\* C35: each id occurs at most once in deletedFiles and at most once in
\* emptyDirectories.
C35_TrackedOnce ==
    NoDuplicates(deletedFiles) /\ NoDuplicates(emptyDirectories)

\* C36: when the guard is clear and no startScan call is between its guard
\* test and its return, no ScanJob has status scanning.
C36_NoJobLeftScanning ==
    (currentScanJob = NULL /\ \A p \in Procs : call[p].pc = "idle")
       => \A j \in scanJobs : j.status # "scanning"

\* C37: in the step in which a ScanJob becomes completed the table holds a
\* Directory record of the scanned root.
C37_CompletedHasRoot ==
    [][(\E j \in scanJobs' : j.status = "completed" /\ j \notin scanJobs)
         => \E d \in directories' : d.path = RootPath]_vars

\* C38: when the deleted-files query returns, the rows it sends are exactly
\* the File records whose id is in the list it was given, whatever the
\* length of that list.
C38_ListedByIds ==
    [][(listing.pc = "query" /\ listing'.pc = "sent")
         => listing'.answer =
              {r \in files : \E k \in 1..Len(listing.ids) : r.id = listing.ids[k]}]_vars
====
